---- MODULE Spec2Model ----
(***************************************************************************)
(* Fantasy draft assistant: the draft board builder (build_draft_board)    *)
(* with the scoring models, the trend analyser, the sleeper classifier,    *)
(* the replacement baseline and the live-signal layer it calls.            *)
(*                                                                         *)
(* Numbers.  Python floats are modelled as fixed-point integers in         *)
(* thousandths: 25.3 is 25300.  round(x, 1) rounds to a multiple of 100.   *)
(* Where the decimal value lies exactly half way between two tenths the    *)
(* float's binary representation decides the direction, which the decimal  *)
(* model cannot see: every rounding takes a tie parameter ("down" or "up") *)
(* that the actions choose nondeterministically.                           *)
(*                                                                         *)
(* Strings.  A Python str whose characters matter (names, positions,       *)
(* numeric strings) is a sequence of one-character strings: "PG/SG" is     *)
(* <<"P","G","/","S","G">>.  Fixed tags are TLA+ strings.                  *)
(*                                                                         *)
(* Dicts.  A Python dict is a function whose domain is its key set; the    *)
(* empty dict has the empty domain.  A JSON scalar held in a dict is a     *)
(* tagged value [tag, num, str] (see Num, Str, None).                      *)
(***************************************************************************)
EXTENDS Integers, Sequences, FiniteSets, TLC

(***************************************************************************)
(* Bounds of the model                                                     *)
(***************************************************************************)
\* number of names of each default pool that the model keeps (the code has 30)
PoolSize == 3
\* longest value list given to the replacement baseline in SpecBaseline
MaxVals == 13

(***************************************************************************)
(* Scalars                                                                 *)
(***************************************************************************)
Num(n) == [tag |-> "num", num |-> n, str |-> <<>>]
Str(s) == [tag |-> "str", num |-> 0, str |-> s]
None == [tag |-> "none", num |-> 0, str |-> <<>>]

\* dict.get(key, default)
Get(d, key, default) == IF key \in DOMAIN d THEN d[key] ELSE default

EmptyDict == [k \in {} |-> None]

\* Python truthiness of a dict or list
IsEmpty(d) == DOMAIN d = {}

DigitVal(c) ==
    CASE c = "0" -> 0 [] c = "1" -> 1 [] c = "2" -> 2 [] c = "3" -> 3
      [] c = "4" -> 4 [] c = "5" -> 5 [] c = "6" -> 6 [] c = "7" -> 7
      [] c = "8" -> 8 [] c = "9" -> 9 [] OTHER -> -1

IsDigit(c) == DigitVal(c) >= 0

RECURSIVE DigitsValue(_)
\* value of a sequence of digits read as a natural number
DigitsValue(s) ==
    IF s = <<>> THEN 0
    ELSE DigitsValue(SubSeq(s, 1, Len(s) - 1)) * 10 + DigitVal(s[Len(s)])

RECURSIVE Pow10(_)
Pow10(n) == IF n = 0 THEN 1 ELSE 10 * Pow10(n - 1)

\* index of the first "." of s, or 0
DotIndex(s) ==
    IF \E i \in 1..Len(s) : s[i] = "."
    THEN CHOOSE i \in 1..Len(s) : s[i] = "." /\ \A j \in 1..(i - 1) : s[j] # "."
    ELSE 0

\* float(s) for a str: an unsigned decimal literal (digits, at most one
\* point, at least one digit, at most three fraction digits) converts to
\* its value in thousandths; every other string used here ("N/A", "bad",
\* ".---", "") raises ValueError.
ParseFloat(s) ==
    LET dot == DotIndex(s)
        ip == IF dot = 0 THEN s ELSE SubSeq(s, 1, dot - 1)
        fp == IF dot = 0 THEN <<>> ELSE SubSeq(s, dot + 1, Len(s))
        ok == /\ Len(ip) + Len(fp) > 0
              /\ Len(fp) <= 3
              /\ \A i \in 1..Len(ip) : IsDigit(ip[i])
              /\ \A i \in 1..Len(fp) : IsDigit(fp[i])
    IN  IF ok
        THEN [ok |-> TRUE,
              val |-> DigitsValue(ip) * 1000 + DigitsValue(fp) * Pow10(3 - Len(fp))]
        ELSE [ok |-> FALSE, val |-> 0]

\* _safe_float(value): float(value), 0.0 on ValueError or TypeError
_safe_float(v) ==
    CASE v.tag = "num" -> v.num
      [] v.tag = "str" -> IF ParseFloat(v.str).ok THEN ParseFloat(v.str).val ELSE 0
      [] OTHER -> 0

TieBreaks == {"down", "up"}

\* the integer nearest to n / d (d # 0); an exact half goes the way of tie
RoundDiv(n, d, tie) ==
    LET nn == IF d < 0 THEN 0 - n ELSE n
        dd == IF d < 0 THEN 0 - d ELSE d
        q == nn \div dd
        r == nn - q * dd
    IN  IF 2 * r < dd THEN q
        ELSE IF 2 * r > dd THEN q + 1
        ELSE IF tie = "up" THEN q + 1 ELSE q

\* round(x, 1)
Round1(x, tie) == RoundDiv(x, 100, tie) * 100

\* a * b for two fixed-point numbers; exact for the operands of the code,
\* which have at most one decimal on one side and two on the other
Mul(a, b) == (a * b) \div 1000

(***************************************************************************)
(* Fantasy scoring models                                                  *)
(***************************************************************************)
NBA_POINTS_KEYS == <<"pts", "reb", "ast", "stl", "blk", "fg3m", "tov">>

NBA_POINTS_WEIGHTS ==
    [pts |-> 1000, reb |-> 1200, ast |-> 1500, stl |-> 3000, blk |-> 3000,
     fg3m |-> 500, tov |-> -1000]

MLB_HITTING_KEYS == <<"runs", "hr", "rbi", "sb">>

MLB_HITTING_WEIGHTS ==
    [runs |-> 1000, hr |-> 4000, rbi |-> 1000, sb |-> 2000, avg_bonus |-> 5000]

MLB_PITCHING_WEIGHTS ==
    [wins |-> 5000, so |-> 1000, saves |-> 5000, era_bonus |-> -2000,
     whip_bonus |-> -3000]

RECURSIVE WeightedSum(_, _, _, _)
\* sum over keys[1..n] of _safe_float(stats.get(key, 0)) * weights[key]
WeightedSum(stats, keys, weights, n) ==
    IF n = 0 THEN 0
    ELSE WeightedSum(stats, keys, weights, n - 1)
         + Mul(_safe_float(Get(stats, keys[n], Num(0))), weights[keys[n]])

\* a composite that counts turnovers for the player
NbaPointsTurnoversAdded(stats, tie) ==
    IF IsEmpty(stats) \/ stats = None THEN 0
    ELSE Round1(WeightedSum(stats, NBA_POINTS_KEYS,
                            [NBA_POINTS_WEIGHTS EXCEPT !.tov = 1000], 7), tie)

compute_nba_points_value(stats, tie) ==
    IF IsEmpty(stats) \/ stats = None THEN 0
    ELSE Round1(WeightedSum(stats, NBA_POINTS_KEYS, NBA_POINTS_WEIGHTS, 7), tie)

RECURSIVE LStripDots(_)
\* s.lstrip(".")
LStripDots(s) ==
    IF s # <<>> /\ s[1] = "." THEN LStripDots(Tail(s)) ELSE s

\* float(stats.get("avg", default).lstrip(".") or alt) / 1000 of the hitting
\* model and of the spring-training rule, in millionths: [raised, avg].
\* A value that is not a str has no lstrip: AttributeError, which the
\* except clause (ValueError, TypeError) does not catch.
ParseAvg(stats, default, alt, fallback) ==
    LET raw == Get(stats, "avg", Str(default))
        stripped == LStripDots(raw.str)
        text == IF stripped = <<>> THEN alt ELSE stripped
        p == ParseFloat(text)
    IN  IF raw.tag # "str" THEN [raised |-> TRUE, avg |-> 0]
        ELSE IF p.ok THEN [raised |-> FALSE, avg |-> p.val]
        ELSE [raised |-> FALSE, avg |-> fallback]

\* [raised, val]
compute_mlb_hitting_value(stats, tie) ==
    IF IsEmpty(stats) \/ stats = None THEN [raised |-> FALSE, val |-> 0]
    ELSE
      LET total == WeightedSum(stats, MLB_HITTING_KEYS, MLB_HITTING_WEIGHTS, 4)
          a == ParseAvg(stats, <<".", "2", "5", "0">>, <<"2", "5", "0">>, 250000)
          \* (avg - 0.270) * 1000 * 5.0, avg in millionths, result in thousandths
          bonus == IF a.avg > 270000
                   THEN ((a.avg - 270000) * MLB_HITTING_WEIGHTS.avg_bonus) \div 1000
                   ELSE 0
      IN  IF a.raised THEN [raised |-> TRUE, val |-> 0]
          ELSE [raised |-> FALSE, val |-> Round1(total + bonus, tie)]

\* float(v) inside try/except (ValueError, TypeError): default on failure
FloatOr(v, default) ==
    CASE v.tag = "num" -> v.num
      [] v.tag = "str" -> IF ParseFloat(v.str).ok THEN ParseFloat(v.str).val ELSE default
      [] OTHER -> default

\* a pitching model whose ERA term also rewards an ERA under 3.50
PitchingRewardsLowEra(stats, tie) ==
    IF IsEmpty(stats) \/ stats = None THEN 0
    ELSE
      LET base == Mul(_safe_float(Get(stats, "wins", Num(0))), MLB_PITCHING_WEIGHTS.wins)
                  + Mul(_safe_float(Get(stats, "so", Num(0))), MLB_PITCHING_WEIGHTS.so)
                  + Mul(_safe_float(Get(stats, "saves", Num(0))), MLB_PITCHING_WEIGHTS.saves)
          era == FloatOr(Get(stats, "era", Str(<<"3", ".", "5", "0">>)), 3500)
          whip == FloatOr(Get(stats, "whip", Str(<<"1", ".", "2", "0">>)), 1200)
          whipPen == IF whip > 1200
                     THEN ((whip - 1200) * MLB_PITCHING_WEIGHTS.whip_bonus) \div 100
                     ELSE 0
      IN  Round1(base + ((era - 3500) * MLB_PITCHING_WEIGHTS.era_bonus) \div 500
                 + whipPen, tie)

compute_mlb_pitching_value(stats, tie) ==
    IF IsEmpty(stats) \/ stats = None THEN 0
    ELSE
      LET base == Mul(_safe_float(Get(stats, "wins", Num(0))), MLB_PITCHING_WEIGHTS.wins)
                  + Mul(_safe_float(Get(stats, "so", Num(0))), MLB_PITCHING_WEIGHTS.so)
                  + Mul(_safe_float(Get(stats, "saves", Num(0))), MLB_PITCHING_WEIGHTS.saves)
          era == FloatOr(Get(stats, "era", Str(<<"3", ".", "5", "0">>)), 3500)
          whip == FloatOr(Get(stats, "whip", Str(<<"1", ".", "2", "0">>)), 1200)
          \* (era - 3.50) / 0.50 * era_bonus
          eraPen == IF era > 3500
                    THEN ((era - 3500) * MLB_PITCHING_WEIGHTS.era_bonus) \div 500
                    ELSE 0
          \* (whip - 1.20) / 0.10 * whip_bonus
          whipPen == IF whip > 1200
                     THEN ((whip - 1200) * MLB_PITCHING_WEIGHTS.whip_bonus) \div 100
                     ELSE 0
      IN  Round1(base + eraPen + whipPen, tie)

RECURSIVE SumPts(_, _)
\* sum(_safe_float(g.get("pts", 0)) for g in game_log[1..n])
SumPts(game_log, n) ==
    IF n = 0 THEN 0
    ELSE SumPts(game_log, n - 1) + _safe_float(Get(game_log[n], "pts", Num(0)))

\* a trend taken from the first game of the log alone
TrendOfFirstGame(season_stats, game_log, tie) ==
    IF game_log = <<>> \/ IsEmpty(season_stats) THEN 0
    ELSE
      LET season_ppg == _safe_float(Get(season_stats, "pts", Num(0)))
      IN  IF season_ppg = 0 THEN 0
          ELSE RoundDiv((SumPts(game_log, 1) - season_ppg) * 1000,
                        season_ppg, tie) * 100

compute_recent_trend(season_stats, game_log, tie) ==
    IF game_log = <<>> \/ IsEmpty(season_stats) THEN 0
    ELSE
      LET season_ppg == _safe_float(Get(season_stats, "pts", Num(0)))
          len == Len(game_log)
      IN  IF season_ppg = 0 THEN 0
          \* ((recent_ppg - season_ppg) / season_ppg) * 100, to one decimal
          ELSE RoundDiv((SumPts(game_log, len) - season_ppg * len) * 1000,
                        season_ppg * len, tie) * 100

NoReason == [rule |-> "", cite |-> None]

\* position rules applied to the first segment of the position string
SleeperByFirstSegment(stats, trend, fantasy_value, position) ==
    LET slashes == {i \in 1..Len(position) : position[i] = "/"}
        seg == IF slashes = {} THEN position
               ELSE SubSeq(position, 1,
                           (CHOOSE i \in slashes : \A j \in slashes : i <= j) - 1)
        blk == _safe_float(Get(stats, "blk", Num(0)))
        stl == _safe_float(Get(stats, "stl", Num(0)))
        res(flag, rule, cite) ==
            [raised |-> FALSE, is_sleeper |-> flag,
             reason |-> [rule |-> rule, cite |-> cite]]
    IN  IF trend >= 15000 /\ fantasy_value > 20000
        THEN res(TRUE, "trend", Num(trend))
        ELSE IF seg \in {<<"C">>, <<"P", "F">>} /\ blk >= 2000 /\ trend >= 5000
        THEN res(TRUE, "blocks", Num(blk))
        ELSE IF seg \in {<<"P", "G">>, <<"S", "G">>} /\ stl >= 1800 /\ trend >= 5000
        THEN res(TRUE, "steals", Num(stl))
        ELSE res(FALSE, "", None)

\* a spring-training rule that reads the sample nested under
\* "spring_training" of the season record
SleeperReadsNestedSpring(stats, trend, fantasy_value, position) ==
    LET spring == Get(stats, "spring_training", [k \in {} |-> None])
        a == ParseAvg(spring, <<".", "0", "0", "0">>, <<"0">>, 0)
        hit == /\ Get(spring, "type", "") = "spring_training"
               /\ ~a.raised /\ a.avg >= 350000
               /\ _safe_float(Get(spring, "games", Num(0))) >= 5000
    IN  [raised |-> FALSE, is_sleeper |-> hit,
         reason |-> IF hit
                    THEN [rule |-> "spring", cite |-> Get(spring, "avg", Str(<<>>))]
                    ELSE NoReason]

\* [raised, is_sleeper, reason]; reason names the rule and the figure cited
identify_sleeper(stats, trend, fantasy_value, position) ==
    LET blk == _safe_float(Get(stats, "blk", Num(0)))
        stl == _safe_float(Get(stats, "stl", Num(0)))
        a == ParseAvg(stats, <<".", "0", "0", "0">>, <<"0">>, 0)
        res(flag, rule, cite) ==
            [raised |-> FALSE, is_sleeper |-> flag,
             reason |-> [rule |-> rule, cite |-> cite]]
    IN  IF trend >= 15000 /\ fantasy_value > 20000
        THEN res(TRUE, "trend", Num(trend))
        ELSE IF position \in {<<"C">>, <<"P", "F">>} /\ blk >= 2000 /\ trend >= 5000
        THEN res(TRUE, "blocks", Num(blk))
        ELSE IF position \in {<<"P", "G">>, <<"S", "G">>} /\ stl >= 1800 /\ trend >= 5000
        THEN res(TRUE, "steals", Num(stl))
        ELSE IF Get(stats, "type", "") = "spring_training"
        THEN IF a.raised
             THEN [raised |-> TRUE, is_sleeper |-> FALSE, reason |-> NoReason]
             ELSE IF a.avg >= 350000 /\ _safe_float(Get(stats, "games", Num(0))) >= 5000
             THEN res(TRUE, "spring", Get(stats, "avg", Str(<<>>)))
             ELSE res(FALSE, "", None)
        ELSE res(FALSE, "", None)

\* compute_vor taking the baseline of no position
ComputeVorNoBaseline(player_value, position, replacement_values, tie) ==
    Round1(player_value, tie)

\* compute_vor: replacement_values.get(position, 0), then round(.., 1)
compute_vor(player_value, position, replacement_values, tie) ==
    Round1(player_value - Get(replacement_values, position, 0), tie)

(***************************************************************************)
(* Strings                                                                 *)
(***************************************************************************)
LowerChar(c) ==
    CASE c = "A" -> "a" [] c = "B" -> "b" [] c = "C" -> "c" [] c = "D" -> "d"
      [] c = "E" -> "e" [] c = "F" -> "f" [] c = "G" -> "g" [] c = "H" -> "h"
      [] c = "I" -> "i" [] c = "J" -> "j" [] c = "K" -> "k" [] c = "L" -> "l"
      [] c = "M" -> "m" [] c = "N" -> "n" [] c = "O" -> "o" [] c = "P" -> "p"
      [] c = "Q" -> "q" [] c = "R" -> "r" [] c = "S" -> "s" [] c = "T" -> "t"
      [] c = "U" -> "u" [] c = "V" -> "v" [] c = "W" -> "w" [] c = "X" -> "x"
      [] c = "Y" -> "y" [] c = "Z" -> "z" [] OTHER -> c

\* s.lower()
Lower(s) == [i \in 1..Len(s) |-> LowerChar(s[i])]

\* position.split("/")[0]
FirstSegment(s) ==
    LET cut == IF \E i \in 1..Len(s) : s[i] = "/"
               THEN CHOOSE i \in 1..Len(s) :
                        s[i] = "/" /\ \A j \in 1..(i - 1) : s[j] # "/"
               ELSE Len(s) + 1
    IN  SubSeq(s, 1, cut - 1)

UTIL == <<"U", "T", "I", "L">>

\* position.split("/")[0] if position else "UTIL"
PosKey(position) == IF position # <<>> THEN FirstSegment(position) ELSE UTIL

\* Python truthiness of a JSON value
Truthy(v) ==
    CASE v.tag = "num" -> v.num # 0
      [] v.tag = "str" -> v.str # <<>>
      [] v.tag = "list" -> v.items # <<>>
      [] v.tag = "dict" -> DOMAIN v.d # {}
      [] OTHER -> FALSE

\* a or b
Or(a, b) == IF Truthy(a) THEN a ELSE b

\* a JSON array
JList(items) == [tag |-> "list", items |-> items]

\* isinstance(v, dict) for an element of the live feed: events and players
\* are records of their keys, every other JSON value carries a tag
IsDict(v) == "tag" \notin DOMAIN v

(***************************************************************************)
(* Live game context (ShippLiveContext)                                    *)
(***************************************************************************)
\* live_context=None of build_draft_board
NoContext == [present |-> FALSE, connection_id |-> None, last_event_id |-> None]

RECURSIVE DigitsOf(_)
\* the decimal digits of a natural number
DigitsOf(n) ==
    LET d == <<"0", "1", "2", "3", "4", "5", "6", "7", "8", "9">>
    IN  IF n < 10 THEN <<d[n + 1]>> ELSE Append(DigitsOf(n \div 10), d[(n % 10) + 1])

\* str(cursor) for an identifier that is a str or a natural number
StrOf(v) == IF v.tag = "num" THEN Str(DigitsOf(v.num \div 1000)) ELSE v

\* a poll that takes its cursor from the first event of the answer
GetLiveGamesFirstEvent(ctx, resp) ==
    LET events == Get(resp.body, "data", Get(resp.body, "events", JList(<<>>)))
        first == events.items[1]
        cursor == Or(Get(first, "id", None), Get(first, "event_id", None))
        usable == resp.kind = "ok" /\ Truthy(ctx.connection_id) /\ Truthy(events)
                  /\ events.tag = "list" /\ IsDict(first)
    IN  [events |-> IF usable THEN events ELSE JList(<<>>),
         ctx |-> IF usable /\ Truthy(cursor)
                 THEN [ctx EXCEPT !.last_event_id = StrOf(cursor)]
                 ELSE ctx,
         sent |-> Truthy(ctx.connection_id),
         since |-> IF Truthy(ctx.connection_id) THEN ctx.last_event_id ELSE None]

\* get_live_games of a context ctx whose POST is answered by resp:
\* resp.kind = "fail" is an exception of the request, of raise_for_status
\* or of resp.json(); "ok" carries the decoded body, a dict.
\* Result: the returned value (a JSON array, or the falsy value found under
\* "data"), the context afterwards, whether a request was sent and the
\* since_event_id of its payload (None when absent).
get_live_games(ctx, resp) ==
    IF ~Truthy(ctx.connection_id)
    THEN [events |-> JList(<<>>), ctx |-> ctx, sent |-> FALSE, since |-> None]
    ELSE
      LET since == IF Truthy(ctx.last_event_id) THEN ctx.last_event_id ELSE None
          events == Get(resp.body, "data", Get(resp.body, "events", JList(<<>>)))
          last == events.items[Len(events.items)]
          cursor == Or(Get(last, "id", None), Get(last, "event_id", None))
          \* events[-1] or last.get raises inside the try
          caught == Truthy(events) /\ (events.tag # "list" \/ ~IsDict(last))
      IN  IF resp.kind = "fail" \/ caught
          THEN [events |-> JList(<<>>), ctx |-> ctx, sent |-> TRUE, since |-> since]
          ELSE [events |-> events,
                ctx |-> IF Truthy(events) /\ Truthy(cursor)
                        THEN [ctx EXCEPT !.last_event_id = StrOf(cursor)]
                        ELSE ctx,
                sent |-> TRUE, since |-> since]

LIVE_STATUSES ==
    { <<"l", "i", "v", "e">>,
      <<"i", "n", "_", "p", "r", "o", "g", "r", "e", "s", "s">>,
      <<"a", "c", "t", "i", "v", "e">>,
      <<"i", "n", " ", "p", "r", "o", "g", "r", "e", "s", "s">> }

TEAM_KEYS == <<"home_players", "away_players", "players", "home_stats", "away_stats">>

NoPlayers == [kind |-> "list", items |-> <<>>]

\* the entry hot_players[name] written for one player dict, or no entry
HotEntry(player) ==
    LET name == Or(Get(player, "name", None),
                   Or(Get(player, "player_name", None),
                      Or(Get(player, "fullName", None), Str(<<>>))))
        pts == _safe_float(Or(Get(player, "points", None), Get(player, "pts", None)))
        reb == _safe_float(Or(Get(player, "rebounds", None), Get(player, "reb", None)))
        ast == _safe_float(Or(Get(player, "assists", None), Get(player, "ast", None)))
    IN  IF Truthy(name) /\ (pts >= 20000 \/ reb >= 10000 \/ ast >= 8000)
        THEN [hot |-> TRUE, name |-> name,
              info |-> [pts |-> pts, reb |-> reb, ast |-> ast, live |-> TRUE,
                        note |-> [text |-> "LIVE", pts |-> pts, reb |-> reb,
                                  ast |-> ast]]]
        ELSE [hot |-> FALSE, name |-> name, info |-> EmptyDict]

\* the loops without the isinstance(players, dict) branch: iterating a keyed
\* mapping yields its keys, which are no dicts and are skipped
GamePlayersListsOnly(game) ==
    LET at(k) == IF Get(game, TEAM_KEYS[k], NoPlayers).kind = "list"
                 THEN Get(game, TEAM_KEYS[k], NoPlayers).items
                 ELSE <<>>
    IN  at(1) \o at(2) \o at(3) \o at(4) \o at(5)

\* the player dicts of one game in the order the loops visit them; a keyed
\* mapping contributes its values (list(players.values()))
GamePlayers(game) ==
    LET at(k) == Get(game, TEAM_KEYS[k], NoPlayers).items
    IN  at(1) \o at(2) \o at(3) \o at(4) \o at(5)

GameIsLive(game) ==
    LET status == Get(game, "status", None)
    IN  (IF Truthy(status) THEN Lower(status.str) ELSE <<>>) \in LIVE_STATUSES

RECURSIVE AddHot(_, _, _)
\* hot_players after the first n players of a game have been visited
AddHot(hot, players, n) ==
    IF n = 0 THEN hot
    ELSE LET before == AddHot(hot, players, n - 1)
             e == HotEntry(players[n])
         IN  IF e.hot
             THEN [k \in DOMAIN before \cup {e.name} |->
                      IF k = e.name THEN e.info ELSE before[k]]
             ELSE before

RECURSIVE ExtractFrom(_, _)
ExtractFrom(games, n) ==
    IF n = 0 THEN EmptyDict
    ELSE LET before == ExtractFrom(games, n - 1)
         IN  IF GameIsLive(games[n])
             THEN AddHot(before, GamePlayers(games[n]), Len(GamePlayers(games[n])))
             ELSE before

\* {player_name: {...}} keyed by the name as a JSON scalar
extract_hot_players(games) == ExtractFrom(games, Len(games))

\* "for game in games" over None or a number, or game.get on an element that
\* is not a dict: extract_hot_players raises
ExtractRaises(games) ==
    CASE games.tag = "list" ->
             \E i \in 1..Len(games.items) : ~IsDict(games.items[i])
      [] games.tag \in {"none", "num"} -> TRUE
      [] OTHER -> FALSE

(***************************************************************************)
(* Replacement baseline and final ordering                                 *)
(***************************************************************************)
RECURSIVE SortedDesc(_)
\* sorted(values, reverse=True)
SortedDesc(values) ==
    IF values = <<>> THEN <<>>
    ELSE LET rest == SortedDesc(SubSeq(values, 1, Len(values) - 1))
             x == values[Len(values)]
             k == Cardinality({i \in 1..Len(rest) : rest[i] >= x})
         IN  SubSeq(rest, 1, k) \o <<x>> \o SubSeq(rest, k + 1, Len(rest))

RECURSIVE SumSeq(_)
SumSeq(values) ==
    IF values = <<>> THEN 0 ELSE values[1] + SumSeq(Tail(values))

\* the baseline with the slice taken one rank too high
ReplacementBaselineShifted(values) ==
    LET sorted_vals == SortedDesc(values)
    IN  IF Len(sorted_vals) >= 12
        THEN SumSeq(SubSeq(sorted_vals, 7, 11)) \div 5
        ELSE IF Len(sorted_vals) >= 3
        THEN sorted_vals[Len(sorted_vals)]
        ELSE 0

\* the value stored in repl[pos] for the list replacement_values[pos]
ReplacementBaseline(values) ==
    LET sorted_vals == SortedDesc(values)
    IN  IF Len(sorted_vals) >= 12
        \* sum(sorted_vals[7:12]) / 5: exact, the values have one decimal
        THEN SumSeq(SubSeq(sorted_vals, 8, 12)) \div 5
        ELSE IF Len(sorted_vals) >= 3
        THEN sorted_vals[Len(sorted_vals)]
        ELSE 0

\* a counter that reports the guards of the roster
CountRosterGuards(roster_names, sport_key) ==
    [k \in {<<"P", "G">>} |-> Len(roster_names)]

\* _count_roster_positions: "For now, return empty dict"
_count_roster_positions(roster_names, sport_key) == [k \in {} |-> 0]

RECURSIVE SortByVorAsc(_)
\* the sort without reverse=True
SortByVorAsc(rs) ==
    IF rs = <<>> THEN <<>>
    ELSE LET rest == SortByVorAsc(SubSeq(rs, 1, Len(rs) - 1))
             x == rs[Len(rs)]
             k == Cardinality({i \in 1..Len(rest) : rest[i].vor <= x.vor})
         IN  SubSeq(rest, 1, k) \o <<x>> \o SubSeq(rest, k + 1, Len(rest))

RECURSIVE SortByVorUnstable(_)
\* a descending sort that puts an entry before the earlier entries of equal key
SortByVorUnstable(rs) ==
    IF rs = <<>> THEN <<>>
    ELSE LET rest == SortByVorUnstable(SubSeq(rs, 1, Len(rs) - 1))
             x == rs[Len(rs)]
             k == Cardinality({i \in 1..Len(rest) : rest[i].vor > x.vor})
         IN  SubSeq(rest, 1, k) \o <<x>> \o SubSeq(rest, k + 1, Len(rest))

RECURSIVE SortByVorDesc(_)
\* ranked.sort(key=lambda p: p.vor, reverse=True): stable, equal keys keep
\* their order
SortByVorDesc(rs) ==
    IF rs = <<>> THEN <<>>
    ELSE LET rest == SortByVorDesc(SubSeq(rs, 1, Len(rs) - 1))
             x == rs[Len(rs)]
             k == Cardinality({i \in 1..Len(rest) : rest[i].vor >= x.vor})
         IN  SubSeq(rest, 1, k) \o <<x>> \o SubSeq(rest, k + 1, Len(rest))

NoTag == [text |-> "", key |-> <<>>]
FillsNeed(pos_key) == [text |-> "fills _ need", key |-> pos_key]
BestAvailable == [text |-> "BEST AVAILABLE", key |-> <<>>]

NoNote == [text |-> "", pts |-> 0, reb |-> 0, ast |-> 0]

\* the top pick tagged whatever tag it carries
TagTopPickAlways(rs) ==
    IF rs # <<>>
    THEN [rs EXCEPT ![1].recommendation = BestAvailable]
    ELSE rs

\* if ranked and not ranked[0].recommendation: ranked[0].recommendation = ...
TagTopPick(rs) ==
    IF rs # <<>> /\ rs[1].recommendation.text = ""
    THEN [rs EXCEPT ![1].recommendation = BestAvailable]
    ELSE rs

(***************************************************************************)
(* Inputs of the model                                                     *)
(***************************************************************************)
\* The default pools, each name abbreviated to two characters; the model
\* keeps the first PoolSize names of each.
NBA_POOL_NAMES ==
    << <<"J", "o">>, <<"L", "u">>, <<"S", "h">>, <<"T", "a">>, <<"E", "d">>,
       <<"W", "e">> >>

MLB_POOL_NAMES ==
    << <<"O", "h">>, <<"J", "u">>, <<"A", "c">>, <<"B", "e">>, <<"F", "r">>,
       <<"T", "u">> >>

NBA_DEFAULT_POOL == SubSeq(NBA_POOL_NAMES, 1, PoolSize)
MLB_DEFAULT_POOL == SubSeq(MLB_POOL_NAMES, 1, PoolSize)

Sports == {"nba", "mlb", "cricket"}
Formats == {"points", "categories", "auction"}

\* drafted_names arguments: other spellings of pool names, a name of no pool
DraftedChoices ==
    { <<>>,
      << <<"j", "O">> >>,
      << <<"L", "U">>, <<"o", "h">>, <<"Z", "z">> >> }

RosterChoices == { <<>>, << <<"S", "h">>, <<"A", "c">> >> }

\* records returned by get_nba_player_season_stats; {} is "not found"
NbaGuard ==
    [player_id |-> Num(1000), team |-> "TST", position |-> <<"P", "G">>,
     pts |-> Num(20000), reb |-> Num(5000), ast |-> Num(5000), stl |-> Num(1000),
     blk |-> Num(500), fg3m |-> Num(2000), tov |-> Num(2000)]

NbaBig ==
    [player_id |-> Num(2000), team |-> "DEN", position |-> <<"C", "/", "P", "F">>,
     pts |-> Num(25000), reb |-> Num(7000), ast |-> Num(8000), stl |-> Num(1500),
     blk |-> Num(2500), fg3m |-> Num(2000), tov |-> Num(3000)]

\* no identifier, no position, a non-numeric and a null field
NbaOdd ==
    [player_id |-> Num(0), team |-> "", position |-> <<>>,
     pts |-> Str(<<"N", "/", "A">>), reb |-> Num(5000), ast |-> Num(4100),
     blk |-> None]

\* lists returned by get_nba_player_game_log
LogNone == <<>>
LogUp == << [pts |-> Num(22000)], [pts |-> Num(23000)] >>
LogHot == << [pts |-> Num(30000)], [pts |-> Num(30000)] >>
LogTen == << [pts |-> Num(22000)] >>

\* (season record, game log) pairs the basketball provider answers with
NbaAnswers ==
    { <<EmptyDict, LogNone>>, <<NbaGuard, LogNone>>, <<NbaGuard, LogUp>>,
      <<NbaGuard, LogTen>>, <<NbaBig, LogHot>>, <<NbaOdd, LogNone>>,
      <<NbaBig, << [pts |-> Num(27000)] >> >> }

\* records returned by get_mlb_player_stats
MlbHitter ==
    [player_id |-> Num(10000), team |-> "NYY", position |-> <<"O", "F">>,
     games |-> Num(150000), avg |-> Str(<<".", "3", "0", "0">>),
     hr |-> Num(40000), rbi |-> Num(110000), runs |-> Num(100000),
     sb |-> Num(10000)]

\* a hitter whose provider payload carries "avg": null
MlbNullAvg == [MlbHitter EXCEPT !.avg = None]

MlbPitcher ==
    [player_id |-> Num(11000), team |-> "ATL", position |-> <<"S", "P">>,
     games |-> Num(30000), wins |-> Num(10000), so |-> Num(150000),
     saves |-> Num(0), era |-> Str(<<"4", ".", "5", "0">>),
     whip |-> Str(<<"1", ".", "4", "0">>)]

\* record returned by get_mlb_spring_training_stats
MlbSpring ==
    [player_id |-> Num(10000), team |-> "NYY", position |-> <<"O", "F">>,
     type |-> "spring_training", games |-> Num(8000),
     avg |-> Str(<<".", "3", "8", "0">>)]

\* (hitting, pitching, spring) answers of the baseball provider
MlbAnswers ==
    { <<EmptyDict, EmptyDict, EmptyDict>>,
      <<MlbHitter, EmptyDict, EmptyDict>>, <<MlbHitter, EmptyDict, MlbSpring>>,
      <<MlbNullAvg, EmptyDict, EmptyDict>>,
      <<EmptyDict, MlbPitcher, EmptyDict>>, <<EmptyDict, MlbPitcher, MlbSpring>> }

\* events of the live feed
GameLive ==
    [id |-> Num(7000), status |-> Str(<<"L", "I", "V", "E">>),
     home_players |->
        [kind |-> "list",
         items |-> << [name |-> Str(<<"J", "o">>), points |-> Num(25000)],
                      [name |-> Str(<<"l", "u">>), pts |-> Num(31000)],
                      [name |-> Str(<<"S", "h">>), points |-> Num(12000)] >>]]

GameMlb ==
    [event_id |-> Str(<<"e", "9">>),
     status |-> Str(<<"i", "n", "_", "p", "r", "o", "g", "r", "e", "s", "s">>),
     away_stats |->
        [kind |-> "dict",
         items |-> << [fullName |-> Str(<<"O", "h">>), rebounds |-> Num(12000)] >>]]

GameOver ==
    [id |-> Num(8000), status |-> Str(<<"F", "i", "n", "a", "l">>),
     players |->
        [kind |-> "list",
         items |-> << [name |-> Str(<<"J", "o">>), points |-> Num(40000)] >>]]

\* answers to the poll of get_live_games
PollResponses ==
    { [kind |-> "fail", body |-> EmptyDict],
      [kind |-> "ok", body |-> [data |-> JList(<<GameLive, GameMlb>>)]],
      [kind |-> "ok", body |-> [events |-> JList(<<GameOver>>)]] }

\* answered polls whose body strays from the documented shape: a null or
\* empty list, a last event without identifier, an event that is not a dict
MalformedPolls ==
    LET GameNoId == [status |-> Str(<<"l", "i", "v", "e">>)]
    IN
    { [kind |-> "ok", body |-> [data |-> None]],
      [kind |-> "ok", body |-> [data |-> JList(<<>>)]],
      [kind |-> "ok", body |-> [data |-> JList(<<GameLive, GameNoId>>)]],
      [kind |-> "ok", body |-> [data |-> JList(<<Str(<<"x">>), GameLive>>)]],
      [kind |-> "ok", body |-> [data |-> JList(<<GameLive, Str(<<"x">>)>>)]] }

Connected ==
    [present |-> TRUE, connection_id |-> Str(<<"c", "1">>), last_event_id |-> None]

(***************************************************************************)
(* State of one run of build_draft_board                                   *)
(***************************************************************************)
VARIABLES
    entry,               \* the operation under way
    pc,                  \* position in build_draft_board
    sport, scoring_format, drafted_names, roster, live_context,   \* arguments
    hot_players,         \* result of extract_hot_players
    available,           \* pool names left after the drafted filter
    idx,                 \* number of names of available already visited
    ranked,              \* list of RankedPlayer
    replacement_values,  \* pos_key -> list of values
    repl,                \* pos_key -> baseline
    lookups,             \* calls made to the stats providers, in order
    call,                \* arguments of a function applied on its own
    result,              \* what that application returned
    clock,               \* time.time(), in tenths of a second
    bdl_last_request,    \* _bdl_last_request
    mlb_last_request,    \* _mlb_last_request
    requests,            \* the HTTP requests issued to the stats providers
    feed,                \* the answers the live feed may give to a poll
    polls,               \* the calls of get_live_games, in order
    exit_status,         \* how main ended, "" while it has not
    printed,             \* what main wrote to stdout after the build
    closes               \* the calls of close, each with whether it sent a request

vars == <<entry, pc, sport, scoring_format, drafted_names, roster, live_context,
          hot_players, available, idx, ranked, replacement_values, repl, lookups,
          call, result, clock, bdl_last_request, mlb_last_request, requests,
          feed, polls, exit_status, printed, closes>>

\* the live context and the polls made on it
live == <<live_context, polls>>

\* what only main assigns
process == <<exit_status, printed, closes>>

\* the state of the request layer of external_stats
throttle == <<clock, bdl_last_request, mlb_last_request, requests>>

\* what no step of build_draft_board assigns
args == <<entry, sport, scoring_format, drafted_names, roster, call, result,
          throttle, feed, process>>

NoCall == [fn |-> ""]
NoResult == [raised |-> FALSE]

\* the module globals as loaded (both timestamps 0.0) at some time of day
Loaded ==
    /\ clock = 10000
    /\ bdl_last_request = 0
    /\ mlb_last_request = 0
    /\ requests = <<>>

\* main has not run
NoMain == exit_status = "" /\ printed = <<>> /\ closes = <<>>

\* no function is being applied on its own
Quiet == call = NoCall /\ result = NoResult /\ Loaded /\ NoMain

Init ==
    /\ entry = "build_draft_board"
    /\ pc = "start"
    /\ sport \in Sports
    /\ scoring_format \in Formats
    /\ drafted_names \in DraftedChoices
    /\ roster \in RosterChoices
    /\ live_context \in {NoContext, Connected}
    /\ feed = PollResponses /\ polls = <<>>
    /\ hot_players = EmptyDict
    /\ available = <<>>
    /\ idx = 0
    /\ ranked = <<>>
    /\ replacement_values = [k \in {} |-> <<>>]
    /\ repl = [k \in {} |-> 0]
    /\ lookups = <<>>
    /\ Quiet

RECURSIVE FilterExact(_, _)
\* the filter without name.lower()
FilterExact(pool, drafted_lower) ==
    IF pool = <<>> THEN <<>>
    ELSE IF pool[1] \notin drafted_lower
         THEN <<pool[1]>> \o FilterExact(Tail(pool), drafted_lower)
         ELSE FilterExact(Tail(pool), drafted_lower)

RECURSIVE Filter(_, _)
\* [name for name in pool if name.lower() not in drafted_lower]
Filter(pool, drafted_lower) ==
    IF pool = <<>> THEN <<>>
    ELSE IF Lower(pool[1]) \notin drafted_lower
         THEN <<pool[1]>> \o Filter(Tail(pool), drafted_lower)
         ELSE Filter(Tail(pool), drafted_lower)

\* the pool chosen for a sport key
PoolOf(sport_key) == IF sport_key = "nba" THEN NBA_DEFAULT_POOL ELSE MLB_DEFAULT_POOL

\* the record of one call of get_live_games: the cursor before, what the
\* call did and the answer it met
Polled(ctx, resp) == [before |-> ctx, resp |-> resp] @@ get_live_games(ctx, resp)

\* lines 424-439: drafted set, live signals, pool, drafted filter
Prepare ==
    /\ pc = "start"
    /\ \E resp \in feed :
         LET drafted_lower == {Lower(drafted_names[i]) : i \in 1..Len(drafted_names)}
             poll == get_live_games(live_context, resp)
         IN  IF ~live_context.present
             THEN /\ UNCHANGED live
                  /\ hot_players' = EmptyDict
                  /\ available' = Filter(PoolOf(sport), drafted_lower)
                  /\ pc' = "loop"
             ELSE /\ live_context' = poll.ctx
                  /\ polls' = Append(polls, Polled(live_context, resp))
                  /\ IF ExtractRaises(poll.events)
                     THEN /\ pc' = "raised"
                          /\ UNCHANGED <<hot_players, available>>
                     ELSE /\ hot_players' = extract_hot_players(poll.events.items)
                          /\ available' = Filter(PoolOf(sport), drafted_lower)
                          /\ pc' = "loop"
    /\ UNCHANGED <<args, idx, ranked, replacement_values, repl, lookups>>

\* one call to a stats provider: the function, the candidate it is made for
\* and whether the answer was a non-empty record or list
Call(fn, player_name, answer) ==
    [fn |-> fn, name |-> player_name, found |-> ~IsEmpty(answer)]

\* a categories mode left without a value
NbaValuePointsOnly(stats, format, tie) ==
    IF format = "points"
    THEN compute_nba_points_value(stats, tie)
    ELSE 0

\* lines 454-458: the value of a basketball record under a scoring format
NbaValue(stats, format, tie) ==
    IF format = "points"
    THEN compute_nba_points_value(stats, tie)
    ELSE compute_nba_points_value(stats, tie)

\* the bonus granted on a case-insensitive match
LiveBonusAnyCase(player_name, hot) ==
    IF \E k \in DOMAIN hot : Lower(k.str) = Lower(player_name) THEN 3000 ELSE 0

\* lines 496-501: 3.0 when the pool name is a key of hot_players
LiveBonus(player_name, hot) ==
    IF Str(player_name) \in DOMAIN hot THEN 3000 ELSE 0

\* lines 509-510: trend * 0.1 when trend > 10
TrendBoost(trend) == IF trend > 10000 THEN Mul(trend, 100) ELSE 0

\* lines 491-524: the candidate is valued; its entry joins ranked
Valued(player_name, stats, value, trend, position, calls) ==
    LET pos_key == PosKey(position)
        is_hot == Str(player_name) \in DOMAIN hot_players
        live_note == IF is_hot
                     THEN Get(hot_players[Str(player_name)], "note", NoNote)
                     ELSE NoNote
        live_bonus == LiveBonus(player_name, hot_players)
        sl == identify_sleeper(stats, trend, value, position)
        adjusted_value == value + live_bonus + TrendBoost(trend)
        rp == [name |-> player_name,
               team |-> Get(stats, "team", ""),
               position |-> position,
               fantasy_value |-> adjusted_value,
               vor |-> 0,
               season_stats |-> stats,
               recent_trend |-> trend,
               live_note |-> live_note,
               is_sleeper |-> sl.is_sleeper,
               sleeper_reason |-> sl.reason,
               recommendation |-> NoTag]
    IN  /\ replacement_values' =
             [k \in DOMAIN replacement_values \cup {pos_key} |->
                 IF k = pos_key
                 THEN Append(Get(replacement_values, pos_key, <<>>), value)
                 ELSE replacement_values[k]]
        /\ lookups' = lookups \o calls
        /\ IF sl.raised
           THEN /\ pc' = "raised"
                /\ UNCHANGED <<ranked, idx>>
           ELSE /\ ranked' = Append(ranked, rp)
                /\ idx' = idx + 1
                /\ pc' = pc

\* an exception leaves build_draft_board
Raised(calls) ==
    /\ lookups' = lookups \o calls
    /\ pc' = "raised"
    /\ UNCHANGED <<idx, ranked, replacement_values>>

\* a failed lookup that raises instead of continuing
SkippedRaises(calls) == Raised(calls)

\* the candidate is skipped (continue)
Skipped(calls) ==
    /\ lookups' = lookups \o calls
    /\ idx' = idx + 1
    /\ UNCHANGED <<pc, ranked, replacement_values>>

\* lines 449-467: one iteration for sport == "nba"
CandidateNba ==
    /\ pc = "loop" /\ idx < Len(available) /\ sport = "nba"
    /\ \E answer \in NbaAnswers, vtie \in TieBreaks, ttie \in TieBreaks :
         LET player_name == available[idx + 1]
             stats == answer[1]
             value == NbaValue(stats, scoring_format, vtie)
             player_id == Get(stats, "player_id", None)
             game_log == answer[2]
             trend == IF Truthy(player_id)
                      THEN compute_recent_trend(stats, game_log, ttie)
                      ELSE 0
             position == Get(stats, "position", <<>>)
             c1 == <<Call("get_nba_player_season_stats", player_name, stats)>>
             c2 == IF Truthy(player_id)
                   THEN <<Call("get_nba_player_game_log", player_name, game_log)>>
                   ELSE <<>>
         IN  IF IsEmpty(stats)
             THEN Skipped(c1)
             ELSE Valued(player_name, stats, value, trend, position, c1 \o c2)
    /\ UNCHANGED <<args, live, hot_players, available, repl>>

\* lines 469-486: one iteration for sport == "mlb"
CandidateMlb ==
    /\ pc = "loop" /\ idx < Len(available) /\ sport = "mlb"
    /\ \E answer \in MlbAnswers, vtie \in TieBreaks :
         LET player_name == available[idx + 1]
             hitting == answer[1]
             pitching == answer[2]
             spring == answer[3]
             base == IF IsEmpty(hitting) THEN pitching ELSE hitting
             hv == compute_mlb_hitting_value(hitting, vtie)
             value == IF IsEmpty(hitting)
                      THEN compute_mlb_pitching_value(pitching, vtie)
                      ELSE hv.val
             \* stats["spring_training"] = spring
             stats == IF ~IsEmpty(spring) /\ Truthy(Get(spring, "games", None))
                      THEN [k \in DOMAIN base \cup {"spring_training"} |->
                               IF k = "spring_training" THEN spring ELSE base[k]]
                      ELSE base
             position == Get(stats, "position", <<>>)
             ch == <<Call("get_mlb_player_stats:hitting", player_name, hitting)>>
             cp == IF IsEmpty(hitting)
                   THEN <<Call("get_mlb_player_stats:pitching", player_name, pitching)>>
                   ELSE <<>>
             cs == <<Call("get_mlb_spring_training_stats", player_name, spring)>>
         IN  IF IsEmpty(hitting) /\ IsEmpty(pitching)
             THEN Skipped(ch \o cp)
             ELSE IF ~IsEmpty(hitting) /\ hv.raised
             THEN Raised(ch)
             ELSE Valued(player_name, stats, value, 0, position, ch \o cp \o cs)
    /\ UNCHANGED <<args, live, hot_players, available, repl>>

\* an unsupported sport key that raises instead of continuing
CandidateOtherRaises ==
    /\ pc = "loop" /\ idx < Len(available)
    /\ sport # "nba" /\ sport # "mlb"
    /\ Raised(<<>>)
    /\ UNCHANGED <<args, live, hot_players, available, repl>>

\* lines 488-489: any other sport key
CandidateOther ==
    /\ pc = "loop" /\ idx < Len(available)
    /\ sport # "nba" /\ sport # "mlb"
    /\ Skipped(<<>>)
    /\ UNCHANGED <<args, live, hot_players, available, repl>>

\* lines 526-535
ComputeBaselines ==
    /\ pc = "loop" /\ idx = Len(available)
    /\ repl' = [pos \in DOMAIN replacement_values |->
                   ReplacementBaseline(replacement_values[pos])]
    /\ pc' = "vor"
    /\ UNCHANGED <<args, live, hot_players, available, idx, ranked,
                   replacement_values, lookups>>

\* lines 537-540
ApplyVor ==
    /\ pc = "vor"
    /\ \E ties \in [1..Len(ranked) -> TieBreaks] :
         ranked' = [k \in 1..Len(ranked) |->
                       [ranked[k] EXCEPT !.vor =
                           compute_vor(ranked[k].fantasy_value,
                                       PosKey(ranked[k].position), repl, ties[k])]]
    /\ pc' = "need"
    /\ UNCHANGED <<args, live, hot_players, available, idx,
                   replacement_values, repl, lookups>>

\* lines 542-548
PositionalNeed ==
    /\ pc = "need"
    /\ LET roster_positions == _count_roster_positions(roster, sport)
       IN  ranked' = [k \in 1..Len(ranked) |->
                        LET pos_key == PosKey(ranked[k].position)
                        IN  IF Get(roster_positions, pos_key, 0) = 0
                            THEN [ranked[k] EXCEPT !.vor = @ + 2000,
                                                   !.recommendation = FillsNeed(pos_key)]
                            ELSE ranked[k]]
    /\ pc' = "sort"
    /\ UNCHANGED <<args, live, hot_players, available, idx,
                   replacement_values, repl, lookups>>

\* lines 550-551
SortBoard ==
    /\ pc = "sort"
    /\ ranked' = SortByVorDesc(ranked)
    /\ pc' = "top"
    /\ UNCHANGED <<args, live, hot_players, available, idx,
                   replacement_values, repl, lookups>>

\* lines 553-558: tag the top pick and return ranked
TopPick ==
    /\ pc = "top"
    /\ ranked' = TagTopPick(ranked)
    /\ pc' = "done"
    /\ UNCHANGED <<args, live, hot_players, available, idx,
                   replacement_values, repl, lookups>>

Next ==
    \/ Prepare
    \/ CandidateNba
    \/ CandidateMlb
    \/ CandidateOther
    \/ ComputeBaselines
    \/ ApplyVor
    \/ PositionalNeed
    \/ SortBoard
    \/ TopPick

Spec == Init /\ [][Next]_vars

(***************************************************************************)
(* Direct applications of the baseline rule, of compute_vor and of the     *)
(* top-pick rule to inputs drawn from bounded sets                         *)
(***************************************************************************)
Idle ==
    /\ sport = "nba" /\ scoring_format = "points"
    /\ drafted_names = <<>> /\ roster = <<>>
    /\ live_context = NoContext /\ hot_players = EmptyDict
    /\ feed = {} /\ polls = <<>>
    /\ available = <<>> /\ idx = 0
    /\ lookups = <<>>

BaselineValues == {10000, 37000}

ValueLists == UNION {[1..n -> BaselineValues] : n \in 1..MaxVals}

\* the state before line 526 with one position key and its value list
InitBaseline ==
    /\ entry = "baseline"
    /\ pc = "loop"
    /\ Idle /\ Quiet
    /\ ranked = <<>>
    /\ \E v \in ValueLists : replacement_values = [k \in {<<"P", "G">>} |-> v]
    /\ repl = [k \in {} |-> 0]

NextBaseline == ComputeBaselines

SpecBaseline == InitBaseline /\ [][NextBaseline]_vars

\* a RankedPlayer of the given position, value, VOR and tag
Entry(name, position, fantasy_value, vor, tag) ==
    [name |-> name, team |-> "TST", position |-> position,
     fantasy_value |-> fantasy_value, vor |-> vor,
     season_stats |-> EmptyDict, recent_trend |-> 0, live_note |-> NoNote,
     is_sleeper |-> FALSE, sleeper_reason |-> NoReason,
     recommendation |-> tag]

\* compute_vor called for one player with a baseline table that may lack
\* the player's position
InitVor ==
    /\ entry = "compute_vor"
    /\ pc = "vor"
    /\ Idle /\ Quiet
    /\ \E position \in {<<"P", "G">>, <<"C">>, <<>>},
          fantasy_value \in {45000, 38250, 35000} :
         ranked = <<Entry(<<"J", "o">>, position, fantasy_value, 0, NoTag)>>
    /\ replacement_values = [k \in {} |-> <<>>]
    /\ repl \in {[k \in {<<"P", "G">>} |-> 30000],
                 [k \in {<<"P", "G">>, <<"C">>} |->
                     IF k = <<"C">> THEN 25000 ELSE 30000]}

SpecVor == (Init \/ InitVor) /\ [][Next]_vars

\* the sorted board before line 553, tagged or not
InitTop ==
    /\ entry = "top_pick"
    /\ pc = "top"
    /\ Idle /\ Quiet
    /\ \E t1 \in {NoTag, FillsNeed(<<"P", "G">>)},
          t2 \in {NoTag, FillsNeed(<<"C">>)}, n \in 0..2 :
         ranked = SubSeq(<< Entry(<<"J", "o">>, <<"P", "G">>, 45000, 15000, t1),
                           Entry(<<"L", "u">>, <<"C">>, 35000, 10000, t2) >>, 1, n)
    /\ replacement_values = [k \in {} |-> <<>>]
    /\ repl = [k \in {} |-> 0]

SpecTop == (Init \/ InitTop) /\ [][Next]_vars

(***************************************************************************)
(* Functions applied on their own to arguments drawn from bounded sets     *)
(***************************************************************************)
(***************************************************************************)
(* A sequence of polls on one live context                                 *)
(***************************************************************************)
MaxPolls == 3

\* a context as constructed (no cursor), connected or not
InitLive ==
    /\ entry = "get_live_games"
    /\ pc = "call"
    /\ sport = "nba" /\ scoring_format = "points"
    /\ drafted_names = <<>> /\ roster = <<>>
    /\ hot_players = EmptyDict /\ available = <<>> /\ idx = 0
    /\ ranked = <<>> /\ lookups = <<>>
    /\ replacement_values = [k \in {} |-> <<>>]
    /\ repl = [k \in {} |-> 0]
    /\ Quiet
    /\ live_context \in {Connected, [Connected EXCEPT !.connection_id = None]}
    /\ feed = PollResponses \cup MalformedPolls
    /\ polls = <<>>

\* one call of get_live_games (lines 84-112)
Poll ==
    /\ entry = "get_live_games"
    /\ Len(polls) < MaxPolls
    /\ \E resp \in feed :
         /\ live_context' = get_live_games(live_context, resp).ctx
         /\ polls' = Append(polls, Polled(live_context, resp))
    /\ UNCHANGED <<args, pc, hot_players, available, idx, ranked,
                   replacement_values, repl, lookups>>

SpecLive == InitLive /\ [][Poll]_vars

(***************************************************************************)
(* main: live set-up, the build, output and exit                           *)
(***************************************************************************)
\* connect (lines 62-82) on a context ctx whose POST is answered by resp
connect(ctx, resp) ==
    LET id == Or(Get(resp.body, "connection_id", None), Get(resp.body, "id", None))
    IN  IF resp.kind = "fail"
        THEN [ok |-> FALSE, ctx |-> ctx]
        ELSE [ok |-> id # None, ctx |-> [ctx EXCEPT !.connection_id = id]]

NO_DATA == "No player data available. Check your internet connection."

\* a tail of main that prints a board whatever the build returned
FinishAlwaysPrints(board) == [status |-> "0", printed |-> <<"board">>]

\* lines 774-785: what main prints and the status it ends with once
\* build_draft_board has returned
Finish(board) ==
    IF board = <<>>
    THEN [status |-> "1", printed |-> <<NO_DATA>>]
    ELSE [status |-> "0", printed |-> <<"board">>]

\* the command line as argparse accepts it, before the live set-up
InitMain ==
    /\ entry = "main"
    /\ pc = "main"
    /\ sport \in {"nba", "mlb"}
    /\ scoring_format \in {"points", "roto"}
    /\ drafted_names \in DraftedChoices \ {<<>>}
    /\ roster = <<>>
    /\ live_context = NoContext
    /\ feed = PollResponses \cup MalformedPolls /\ polls = <<>>
    /\ hot_players = EmptyDict /\ available = <<>> /\ idx = 0
    /\ ranked = <<>> /\ lookups = <<>>
    /\ replacement_values = [k \in {} |-> <<>>]
    /\ repl = [k \in {} |-> 0]
    /\ Quiet

\* lines 744-761: live_ctx stays None under --no-live or without an API key
\* and is set back to None when connect returns False
MainConnect ==
    /\ entry = "main" /\ pc = "main"
    /\ \E wanted \in BOOLEAN,
          resp \in { [kind |-> "fail", body |-> EmptyDict],
                     [kind |-> "ok", body |-> EmptyDict],
                     [kind |-> "ok", body |-> [connection_id |-> Str(<<"c", "1">>)]],
                     [kind |-> "ok", body |-> [id |-> Num(7000)]],
                     [kind |-> "ok", body |-> [id |-> Num(0)]] } :
         LET made == connect([NoContext EXCEPT !.present = TRUE], resp)
         IN  /\ call' = [fn |-> "connect", wanted |-> wanted, resp |-> resp]
             /\ result' = [raised |-> FALSE, ok |-> wanted /\ made.ok]
             /\ live_context' = IF wanted /\ made.ok THEN made.ctx ELSE NoContext
    /\ pc' = "start"
    /\ UNCHANGED <<entry, sport, scoring_format, drafted_names, roster, throttle,
                   feed, process, polls, hot_players, available, idx, ranked,
                   replacement_values, repl, lookups>>

\* close (lines 161-170): a request goes out for a truthy handle only, and
\* its failure is swallowed
close(ctx) == [sent |-> Truthy(ctx.connection_id)]

\* a finally clause that releases nothing
FinallySkipped(ctx, log) == log

\* lines 787-789: "if live_ctx: live_ctx.close()"
Finally(ctx, log) == IF ctx.present THEN Append(log, close(ctx)) ELSE log

\* lines 764-789: the build has returned or raised; output, exit status and
\* the finally clause. Formatting or printing a board may raise as well.
MainEnd ==
    /\ entry = "main" /\ pc \in {"done", "raised"}
    /\ \E output_raises \in BOOLEAN :
         IF pc = "raised" \/ (output_raises /\ ranked # <<>>)
         THEN exit_status' = "exception" /\ printed' = printed
         ELSE /\ exit_status' = Finish(ranked).status
              /\ printed' = printed \o Finish(ranked).printed
    /\ closes' = Finally(live_context, closes)
    /\ pc' = "exited"
    /\ UNCHANGED <<entry, sport, scoring_format, drafted_names, roster, call,
                   result, throttle, feed, live, hot_players, available, idx,
                   ranked, replacement_values, repl, lookups>>

\* --sport admits nba and mlb only
NextMain ==
    \/ MainConnect
    \/ Prepare
    \/ CandidateNba
    \/ CandidateMlb
    \/ ComputeBaselines
    \/ ApplyVor
    \/ PositionalNeed
    \/ SortBoard
    \/ TopPick
    \/ MainEnd

SpecMain == InitMain /\ [][NextMain]_vars

\* main runs to its end: nothing suspends a step that can be taken
SpecMainFair == SpecMain /\ WF_vars(NextMain)

\* no build is under way
NoBuild ==
    /\ Idle
    /\ ranked = <<>>
    /\ replacement_values = [k \in {} |-> <<>>]
    /\ repl = [k \in {} |-> 0]

\* an action that applies a function on its own changes call's result only
Apply(fn) ==
    /\ entry = fn /\ pc = "call"
    /\ UNCHANGED <<entry, sport, scoring_format, drafted_names, roster, call,
                   live, hot_players, available, idx, ranked,
                   replacement_values, repl, lookups, throttle, feed, process>>

\* stats arguments of identify_sleeper: both position categories elite,
\* neither, spring-training records, and every rule's figures at once
SleeperStats ==
    { [blk |-> Num(2500), stl |-> Num(2000)],
      [blk |-> Num(1900), stl |-> Num(1700)],
      [type |-> "spring_training", avg |-> Str(<<".", "3", "8", "0">>),
       games |-> Num(8000)],
      [type |-> "spring_training", avg |-> Str(<<".", "3", "8", "0">>),
       games |-> Num(4000)],
      [type |-> "spring_training", avg |-> Str(<<".", "3", "4", "9">>),
       games |-> Num(8000)],
      [type |-> "spring_training", avg |-> None, games |-> Num(8000)],
      [type |-> "spring_training", avg |-> Str(<<".", "3", "8", "0">>),
       games |-> Num(8000), blk |-> Num(2000), stl |-> Num(1800)] }

InitSleeper ==
    /\ entry = "identify_sleeper"
    /\ pc = "call"
    /\ NoBuild
    /\ \E stats \in SleeperStats,
          trend \in {0, 4900, 5000, 14900, 15000, 20000},
          fantasy_value \in {10000, 20000, 20100},
          position \in { <<"C">>, <<"P", "F">>, <<"P", "G">>, <<"S", "G">>,
                         <<"S", "F">>, <<"O", "F">>, <<"C", "/", "P", "F">> } :
         call = [fn |-> "identify_sleeper", stats |-> stats, trend |-> trend,
                 fantasy_value |-> fantasy_value, position |-> position]
    /\ result = NoResult
    /\ Loaded /\ NoMain

\* identify_sleeper(stats, trend, fantasy_value, position)
ApplySleeper ==
    /\ Apply("identify_sleeper")
    /\ result' = identify_sleeper(call.stats, call.trend, call.fantasy_value,
                                  call.position)
    /\ pc' = IF result'.raised THEN "raised" ELSE "returned"

SpecSleeper == InitSleeper /\ [][ApplySleeper]_vars

(***************************************************************************)
(* extract_hot_players applied to lists of events                          *)
(***************************************************************************)
\* events of one team key: a status (or none), the players as an array or
\* as a keyed mapping, stat lines on and around the thresholds
HotGames ==
    LET jo == Str(<<"J", "o">>)
        lineups ==
          { << [name |-> jo, points |-> Num(20000)] >>,
            << [name |-> jo, points |-> Num(19900), rebounds |-> Num(9000),
                assists |-> Num(7000)] >>,
            << [player_name |-> Str(<<"l", "u">>), reb |-> Str(<<"1", "0">>)],
               [points |-> Num(30000)] >>,
            << [fullName |-> Str(<<"O", "h">>), ast |-> Num(8000),
                points |-> Str(<<"x">>)],
               [name |-> jo, points |-> Num(12000)] >>,
            << [name |-> Str(<<"S", "h">>), points |-> Num(0),
                pts |-> Num(25000)] >>,
            << [name |-> Str(<<>>), assists |-> Num(9000)] >> }
        statuses == { Str(<<"L", "I", "V", "E">>), Str(<<"F", "i", "n", "a", "l">>),
                      Str(<<"I", "n", " ", "P", "r", "o", "g", "r", "e", "s", "s">>),
                      None }
        teams(kind, items) == [kind |-> kind, items |-> items]
    IN  { [status |-> st, home_players |-> teams(kind, l)] :
              st \in statuses, kind \in {"list", "dict"}, l \in lineups }
        \cup
        { [status |-> st, away_stats |-> teams(kind, l)] :
              st \in statuses, kind \in {"list", "dict"}, l \in lineups }

InitHot ==
    /\ entry = "extract_hot_players"
    /\ pc = "call"
    /\ NoBuild
    /\ \E g1 \in HotGames, g2 \in HotGames, n \in 1..2 :
         call = [fn |-> "extract_hot_players", games |-> SubSeq(<<g1, g2>>, 1, n)]
    /\ result = NoResult
    /\ Loaded /\ NoMain

\* extract_hot_players(games)
ApplyHot ==
    /\ Apply("extract_hot_players")
    /\ result' = [raised |-> FALSE, value |-> extract_hot_players(call.games)]
    /\ pc' = "returned"

SpecHot == InitHot /\ [][ApplyHot]_vars

(***************************************************************************)
(* compute_recent_trend applied to season records and game logs            *)
(***************************************************************************)
MaxLog == 3

InitTrend ==
    /\ entry = "compute_recent_trend"
    /\ pc = "call"
    /\ NoBuild
    /\ \E tie \in TieBreaks, n \in 0..MaxLog,
          season \in { EmptyDict, [pts |-> Num(0)], [pts |-> Num(20000)],
                       [pts |-> Num(25500)], [pts |-> Num(30000)],
                       [pts |-> Str(<<"N", "/", "A">>)], [reb |-> Num(5000)] } :
         \E log \in [1..n -> { [pts |-> Num(10000)], [pts |-> Num(23000)],
                               [pts |-> Num(35000)], [pts |-> Str(<<"3", "0">>)],
                               [reb |-> Num(9000)] }] :
            call = [fn |-> "compute_recent_trend", season_stats |-> season,
                    game_log |-> log, tie |-> tie]
    /\ result = NoResult
    /\ Loaded /\ NoMain

\* compute_recent_trend(season_stats, game_log)
ApplyTrend ==
    /\ Apply("compute_recent_trend")
    /\ result' = [raised |-> FALSE,
                  val |-> compute_recent_trend(call.season_stats, call.game_log,
                                               call.tie)]
    /\ pc' = "returned"

SpecTrend == InitTrend /\ [][ApplyTrend]_vars

(***************************************************************************)
(* The scoring models applied to records with well- and ill-formed fields  *)
(***************************************************************************)
\* a record of the given fields, each a number, a numeric string, a string
\* that is no number, None or absent; the last keys take the values of
\* model: a batting average, an ERA or a WHIP. Besides these, records with
\* every field of the model, and None for the record itself.
InitValue ==
    /\ entry = "valuation"
    /\ pc = "call"
    /\ NoBuild
    /\ \E fn \in {"compute_nba_points_value", "compute_mlb_hitting_value",
                   "compute_mlb_pitching_value"},
          tie \in TieBreaks :
         LET absent == [tag |-> "absent"]
             counts == {Num(2000), Str(<<"2">>), Str(<<"N", "/", "A">>), None, absent}
             ratios == IF fn = "compute_mlb_hitting_value"
                       THEN {Str(<<".", "3", "0", "0">>), Str(<<".", "2", "7", "0">>),
                             Str(<<".", "2", "7", "1">>), Str(<<"1", ".", "0", "0", "0">>),
                             Str(<<"0", ".", "3", "0", "0">>),
                             Str(<<".", "-", "-", "-">>), Str(<<>>), None, Num(300),
                             absent}
                       ELSE {Str(<<"4", ".", "5", "0">>), Str(<<"1", ".", "2", "0">>),
                             Str(<<"3", ".", "5", "0">>), Str(<<"3", ".", "7", "5">>),
                             Str(<<"b", "a", "d">>), None, Num(4500), absent}
             fields == CASE fn = "compute_nba_points_value" ->
                                [{"pts", "reb", "tov"} -> counts]
                         [] fn = "compute_mlb_hitting_value" ->
                                {f \in [{"runs", "hr", "avg"} -> counts \cup ratios] :
                                    f.runs \in counts /\ f.hr \in counts
                                    /\ f.avg \in ratios}
                         [] OTHER ->
                                {f \in [{"wins", "era", "whip"} -> counts \cup ratios] :
                                    f.wins \in counts /\ f.era \in ratios
                                    /\ f.whip \in ratios}
             whole == CASE fn = "compute_nba_points_value" ->
                               { [pts |-> Num(25300), reb |-> Num(5300),
                                  ast |-> Num(7500), stl |-> Num(1200),
                                  blk |-> Num(800), fg3m |-> Num(2500),
                                  tov |-> Num(3100)],
                                 [ast |-> Num(100), fg3m |-> Num(300)],
                                 [stl |-> Num(1000), blk |-> Num(2000),
                                  team |-> Str(<<"T">>)] }
                        [] fn = "compute_mlb_hitting_value" ->
                               { [runs |-> Num(2000), hr |-> Num(2000),
                                  rbi |-> Num(3000), sb |-> Num(1000),
                                  avg |-> Str(<<".", "3", "0", "0">>)],
                                 [rbi |-> Num(90000), sb |-> Num(12000)] }
                        [] OTHER ->
                               { [wins |-> Num(10000), so |-> Num(150000),
                                  saves |-> Num(0), era |-> Str(<<"4", ".", "5", "0">>),
                                  whip |-> Str(<<"1", ".", "4", "0">>)],
                                 [so |-> Num(60000), saves |-> Num(30000),
                                  era |-> Str(<<"2", ".", "1", "0">>)] }
         IN  \E stats \in {[k \in {j \in DOMAIN f : f[j] # absent} |-> f[k]] :
                               f \in fields} \cup whole \cup {None} :
               call = [fn |-> fn, tie |-> tie, stats |-> stats]
    /\ result = NoResult
    /\ Loaded /\ NoMain

\* compute_nba_points_value(stats), compute_mlb_hitting_value(stats) or
\* compute_mlb_pitching_value(stats)
ApplyValue ==
    /\ Apply("valuation")
    /\ result' =
         CASE call.fn = "compute_nba_points_value" ->
                  [raised |-> FALSE, val |-> compute_nba_points_value(call.stats, call.tie)]
           [] call.fn = "compute_mlb_hitting_value" ->
                  compute_mlb_hitting_value(call.stats, call.tie)
           [] OTHER ->
                  [raised |-> FALSE, val |-> compute_mlb_pitching_value(call.stats, call.tie)]
    /\ pc' = IF result'.raised THEN "raised" ELSE "returned"

SpecValue == InitValue /\ [][ApplyValue]_vars

(***************************************************************************)
(* The request layer of external_stats: _bdl_request and _mlb_request.     *)
(* Times are in tenths of a second.                                        *)
(***************************************************************************)
\* number of calls of the request functions in one run of SpecRequests
MaxRequests == 3

BDL_RATE_LIMIT_DELAY == 21
MLB_RATE_DELAY == 5
\* time.sleep(60) after a 429
BDL_BACKOFF == 600

\* What requests.get and resp.json() can do, with the time the request
\* takes.  "exception" is a RequestException raised by requests.get
\* (connection refused at once, or the 10 s timeout): no response exists.
\* "bad_json" is a 200 whose body does not decode: resp.json() raises
\* JSONDecodeError, a RequestException since requests 2.27 and a plain
\* ValueError before ("bad_json_value_error").
Outcomes ==
    { [status |-> "200", dur |-> 2], [status |-> "429", dur |-> 2],
      [status |-> "404", dur |-> 2], [status |-> "500", dur |-> 2],
      [status |-> "bad_json", dur |-> 2],
      [status |-> "bad_json_value_error", dur |-> 2],
      [status |-> "exception", dur |-> 0], [status |-> "exception", dur |-> 100] }

\* The part common to both request functions.  now is time.time() at
\* entry, last the provider's timestamp; backoff is the sleep after a
\* rejection.  The record gives the sleep before the request, the time it
\* was issued, the timestamp and the clock afterwards, and what the caller
\* gets: "body", "none" or "raised".
Request(now, last, delay, outcome, backoff) ==
    LET elapsed == now - last
        slept == IF elapsed < delay THEN delay - elapsed ELSE 0
        issued == now + slept
        answered == issued + outcome.dur
        responded == outcome.status # "exception"
    IN  [slept |-> slept, issued |-> issued, answered |-> answered,
         status |-> outcome.status,
         last |-> IF responded THEN answered ELSE last,
         backoff |-> backoff,
         clock |-> answered + backoff,
         returned |-> CASE outcome.status = "200" -> "body"
                        [] outcome.status = "bad_json_value_error" -> "raised"
                        [] OTHER -> "none"]

\* _bdl_request that returns at once after a 429
BdlRequestNoBackoff(now, last, outcome) ==
    Request(now, last, BDL_RATE_LIMIT_DELAY, outcome, 0)

_bdl_request(now, last, outcome) ==
    Request(now, last, BDL_RATE_LIMIT_DELAY, outcome,
            IF outcome.status = "429" THEN BDL_BACKOFF ELSE 0)

_mlb_request(now, last, outcome) ==
    Request(now, last, MLB_RATE_DELAY, outcome, 0)

InitRequests ==
    /\ entry = "requests"
    /\ pc = "call"
    /\ NoBuild /\ NoMain
    /\ call = NoCall /\ result = NoResult
    /\ Loaded

\* the build and the function applications stand still
RequestFrame ==
    /\ entry = "requests" /\ Len(requests) < MaxRequests
    /\ UNCHANGED <<entry, pc, sport, scoring_format, drafted_names, roster, call,
                   result, live, hot_players, available, idx, ranked,
                   replacement_values, repl, lookups, feed, process>>

\* one call of _bdl_request, made gap after the previous call returned
BdlRequest ==
    /\ RequestFrame
    /\ \E gap \in {0, 30}, outcome \in Outcomes :
         LET r == _bdl_request(clock + gap, bdl_last_request, outcome)
         IN  /\ requests' = Append(requests, [provider |-> "bdl"] @@ r)
             /\ bdl_last_request' = r.last
             /\ clock' = r.clock
    /\ UNCHANGED mlb_last_request

\* one call of _mlb_request
MlbRequest ==
    /\ RequestFrame
    /\ \E gap \in {0, 30}, outcome \in Outcomes :
         LET r == _mlb_request(clock + gap, mlb_last_request, outcome)
         IN  /\ requests' = Append(requests, [provider |-> "mlb"] @@ r)
             /\ mlb_last_request' = r.last
             /\ clock' = r.clock
    /\ UNCHANGED bdl_last_request

NextRequests == BdlRequest \/ MlbRequest

SpecRequests == InitRequests /\ [][NextRequests]_vars

(***************************************************************************)
(* The normalizers of external_stats.  A decoded JSON value carries its    *)
(* Python type, since what a normalizer can do with a value (.get, a for   *)
(* loop, [0]) depends on it: scalars are Num, Str and None, arrays and     *)
(* objects JList and JDict.  What a request function gave its caller is    *)
(* such a value, None, or JRaised when the request function raised.        *)
(***************************************************************************)
JRaised == [tag |-> "raised"]
JDict(d) == [tag |-> "dict", d |-> d]

\* "if not data or not data.get(key)": "absent" when the test is true, "ok"
\* when it is false, "raise" when data has no .get or the request raised
Probe(data, key) ==
    IF data.tag = "raised" THEN "raise"
    ELSE IF ~Truthy(data) THEN "absent"
    ELSE IF data.tag # "dict" THEN "raise"
    ELSE IF ~Truthy(Get(data.d, key, None)) THEN "absent"
    ELSE "ok"

\* v[0] of a truthy v: [ok, item]; a dict has no key 0, a number no items
First(v) ==
    CASE v.tag = "list" -> [ok |-> TRUE, item |-> v.items[1]]
      [] v.tag = "str" -> [ok |-> TRUE, item |-> Str(<<v.str[1]>>)]
      [] OTHER -> [ok |-> FALSE, item |-> None]

\* the values a for loop over a truthy v visits: [ok, items]; a str and a
\* dict give strs (one stands for all), a number is not iterable
Elems(v) ==
    CASE v.tag = "list" -> [ok |-> TRUE, items |-> v.items]
      [] v.tag = "num" -> [ok |-> FALSE, items |-> <<>>]
      [] OTHER -> [ok |-> TRUE, items |-> <<Str(<<"k">>)>>]

\* what a normalizer did: it raised, or it returned value; calls requests
\* were made
Outcome(raised, value, calls) ==
    [raised |-> raised, value |-> value, calls |-> calls]

\* the loop of a finder: the first entry whose name (by NameOf) is
\* player_name.lower(), else candidates[0]; an entry whose name cannot be
\* taken, met before a match, raises
FindIn(candidates, player_name, NameOf(_)) ==
    LET e == Elems(candidates)
        n == Len(e.items)
        named(i) == e.items[i].tag = "dict" /\ NameOf(e.items[i]).ok
        hit == {i \in 1..n : named(i) /\ NameOf(e.items[i]).name = Lower(player_name)}
        stop == {i \in 1..n : ~named(i)}
        first(S) == CHOOSE i \in S : \A k \in S : i <= k
    IN  IF ~e.ok THEN [raised |-> TRUE, player |-> None]
        ELSE IF hit # {} /\ (stop = {} \/ first(hit) < first(stop))
        THEN [raised |-> FALSE, player |-> e.items[first(hit)]]
        ELSE IF stop # {} THEN [raised |-> TRUE, player |-> None]
        ELSE [raised |-> FALSE, player |-> First(candidates).item]

\* f"{p.get('first_name', '')} {p.get('last_name', '')}" for names that
\* are strs or null
BdlName(p) ==
    LET text(v) == IF v.tag = "str" THEN v.str ELSE <<"N", "o", "n", "e">>
    IN  text(Get(p.d, "first_name", Str(<<>>))) \o <<" ">>
        \o text(Get(p.d, "last_name", Str(<<>>)))

\* _find_bdl_player given the answer to its request: [raised, player]
_find_bdl_player(data, player_name) ==
    LET probe == Probe(data, "data")
        full(p) == [ok |-> TRUE, name |-> Lower(BdlName(p))]
    IN  IF probe = "raise" THEN [raised |-> TRUE, player |-> None]
        ELSE IF probe = "absent" THEN [raised |-> FALSE, player |-> None]
        ELSE FindIn(data.d.data, player_name, full)

\* get_nba_player_season_stats given the answers to its (up to three)
\* requests
get_nba_player_season_stats(responses, player_name) ==
    LET f == _find_bdl_player(responses[1], player_name)
        player == f.player
        p2 == Probe(responses[2], "data")
        p3 == Probe(responses[3], "data")
        calls == IF p2 = "absent" THEN 3 ELSE 2
        data == IF p2 = "absent" THEN responses[3] ELSE responses[2]
        avg == First(data.d.data)
        team == Get(player.d, "team", JDict(EmptyDict))
        \* the keys read from avg, under the names they are stored as
        keys == [games_played |-> "games_played", pts |-> "pts", reb |-> "reb",
                 ast |-> "ast", stl |-> "stl", blk |-> "blk", tov |-> "turnover",
                 fg_pct |-> "fg_pct", ft_pct |-> "ft_pct",
                 fg3_pct |-> "fg3_pct", fg3m |-> "fg3m", min |-> "min"]
    IN  IF f.raised THEN Outcome(TRUE, EmptyDict, 1)
        ELSE IF ~Truthy(player) THEN Outcome(FALSE, EmptyDict, 1)
        ELSE IF p2 = "raise" THEN Outcome(TRUE, EmptyDict, 2)
        ELSE IF p2 = "absent" /\ p3 = "raise" THEN Outcome(TRUE, EmptyDict, 3)
        ELSE IF p2 = "absent" /\ p3 = "absent" THEN Outcome(FALSE, EmptyDict, 3)
        ELSE IF ~avg.ok \/ team.tag # "dict" \/ avg.item.tag # "dict"
        THEN Outcome(TRUE, EmptyDict, calls)
        ELSE Outcome(FALSE,
               [k \in {"player_id", "name", "team", "position"} \cup DOMAIN keys |->
                  CASE k = "player_id" -> Get(player.d, "id", None)
                    [] k = "name" -> Str(BdlName(player))
                    [] k = "team" -> Or(Get(team.d, "abbreviation", None),
                                        Get(team.d, "full_name", Str(<<>>)))
                    [] k = "position" -> Get(player.d, "position", Str(<<>>))
                    [] OTHER -> Get(avg.item.d, keys[k],
                                    IF k = "min" THEN Str(<<"0">>) ELSE Num(0))],
               calls)

\* get_nba_player_game_log given the answer to its request; a list body
\* holds at most last_n rows here
get_nba_player_game_log(responses) ==
    LET probe == Probe(responses[1], "data")
        rows == responses[1].d.data
        e == Elems(rows)
        game_info(stat) == Get(stat.d, "game", JDict(EmptyDict))
        team(stat) == Get(stat.d, "team", JDict(EmptyDict))
        \* stat, stat["game"] and stat["team"] must have .get
        ok(stat) == /\ stat.tag = "dict"
                    /\ game_info(stat).tag = "dict" /\ team(stat).tag = "dict"
        game(stat) ==
            [date |-> Get(game_info(stat).d, "date", Str(<<>>)),
             pts |-> Get(stat.d, "pts", Num(0)),
             reb |-> Get(stat.d, "reb", Num(0)),
             ast |-> Get(stat.d, "ast", Num(0)),
             stl |-> Get(stat.d, "stl", Num(0)),
             blk |-> Get(stat.d, "blk", Num(0)),
             tov |-> Get(stat.d, "turnover", Num(0)),
             fg_pct |-> Get(stat.d, "fg_pct", Num(0)),
             min |-> Get(stat.d, "min", Str(<<"0">>)),
             is_home |-> Get(team(stat).d, "id", None)
                           = Get(game_info(stat).d, "home_team_id", None)]
    IN  IF probe = "raise" THEN Outcome(TRUE, <<>>, 1)
        ELSE IF probe = "absent" THEN Outcome(FALSE, <<>>, 1)
        \* data["data"][:last_n]: a dict or a number cannot be sliced
        ELSE IF rows.tag \notin {"list", "str"} THEN Outcome(TRUE, <<>>, 1)
        ELSE IF \E i \in 1..Len(e.items) : ~ok(e.items[i]) THEN Outcome(TRUE, <<>>, 1)
        ELSE Outcome(FALSE, [i \in 1..Len(e.items) |-> game(e.items[i])], 1)

\* _find_mlb_player given the answers to its (up to two) requests:
\* [raised, player, calls]
_find_mlb_player(responses, player_name) ==
    LET first_empty == responses[1].tag # "raised" /\ ~Truthy(responses[1])
        calls == IF first_empty THEN 2 ELSE 1
        data == responses[calls]
        people == Or(Get(data.d, "people", None), Get(data.d, "row", None))
        found == Or(people, Get(data.d, "players", JList(<<>>)))
        \* p.get("fullName", "").lower()
        full(p) == LET v == Get(p.d, "fullName", Str(<<>>))
                   IN  [ok |-> v.tag = "str",
                        name |-> IF v.tag = "str" THEN Lower(v.str) ELSE <<>>]
        f == FindIn(found, player_name, full)
        out(raised, player) == [raised |-> raised, player |-> player, calls |-> calls]
    IN  IF data.tag = "raised" THEN out(TRUE, None)
        ELSE IF ~Truthy(data) THEN out(FALSE, None)
        ELSE IF data.tag # "dict" THEN out(TRUE, None)
        ELSE IF ~Truthy(found) THEN out(FALSE, None)
        ELSE out(f.raised, f.player)

\* The walk data.get("stats", [])[0].get("splits", [])[0].get("stat", {})
\* of the two baseball normalizers: "raise", "absent" (no data, no stats
\* list), "no_splits", or "ok" with raw
MlbRaw(data) ==
    LET stats_list == Get(data.d, "stats", JList(<<>>))
        group == First(stats_list)
        splits == Get(group.item.d, "splits", JList(<<>>))
        split == First(splits)
        at(status) == [status |-> status, raw |-> None]
    IN  IF data.tag = "raised" THEN at("raise")
        ELSE IF ~Truthy(data) THEN at("absent")
        ELSE IF data.tag # "dict" THEN at("raise")
        ELSE IF ~Truthy(stats_list) THEN at("absent")
        ELSE IF ~group.ok \/ group.item.tag # "dict" THEN at("raise")
        ELSE IF ~Truthy(splits) THEN at("no_splits")
        ELSE IF ~split.ok \/ split.item.tag # "dict" THEN at("raise")
        ELSE [status |-> "ok", raw |-> Get(split.item.d, "stat", JDict(EmptyDict))]

\* get_mlb_player_stats given the answers to its requests
get_mlb_player_stats(responses, player_name, stat_group) ==
    LET f == _find_mlb_player(responses, player_name)
        player == f.player
        calls == f.calls + 1
        w == MlbRaw(responses[calls])
        primary == Get(player.d, "primaryPosition", JDict(EmptyDict))
        current == Get(player.d, "currentTeam", JDict(EmptyDict))
        top == [player_id |-> Get(player.d, "id", None),
                name |-> Get(player.d, "fullName", Str(player_name)),
                team |-> Get(current.d, "name", Str(<<>>)),
                position |-> Get(primary.d, "abbreviation", Str(<<>>))]
        zero == Str(<<".", "0", "0", "0">>)
        hitting == [games |-> Get(w.raw.d, "gamesPlayed", Num(0)),
                    avg |-> Get(w.raw.d, "avg", zero),
                    hr |-> Get(w.raw.d, "homeRuns", Num(0)),
                    rbi |-> Get(w.raw.d, "rbi", Num(0)),
                    runs |-> Get(w.raw.d, "runs", Num(0)),
                    sb |-> Get(w.raw.d, "stolenBases", Num(0)),
                    obp |-> Get(w.raw.d, "obp", zero),
                    slg |-> Get(w.raw.d, "slg", zero),
                    ops |-> Get(w.raw.d, "ops", zero),
                    hits |-> Get(w.raw.d, "hits", Num(0)),
                    ab |-> Get(w.raw.d, "atBats", Num(0)),
                    bb |-> Get(w.raw.d, "baseOnBalls", Num(0)),
                    so |-> Get(w.raw.d, "strikeOuts", Num(0))]
        pitching == [games |-> Get(w.raw.d, "gamesPlayed", Num(0)),
                     wins |-> Get(w.raw.d, "wins", Num(0)),
                     losses |-> Get(w.raw.d, "losses", Num(0)),
                     era |-> Get(w.raw.d, "era", Str(<<"0", ".", "0", "0">>)),
                     whip |-> Get(w.raw.d, "whip", Str(<<"0", ".", "0", "0">>)),
                     so |-> Get(w.raw.d, "strikeOuts", Num(0)),
                     ip |-> Get(w.raw.d, "inningsPitched", Str(<<"0", ".", "0">>)),
                     saves |-> Get(w.raw.d, "saves", Num(0)),
                     holds |-> Get(w.raw.d, "holds", Num(0)),
                     bb |-> Get(w.raw.d, "baseOnBalls", Num(0)),
                     hits_allowed |-> Get(w.raw.d, "hits", Num(0)),
                     hr_allowed |-> Get(w.raw.d, "homeRuns", Num(0))]
    IN  IF f.raised THEN Outcome(TRUE, EmptyDict, f.calls)
        ELSE IF ~Truthy(player) \/ ~Truthy(Get(player.d, "id", None))
        THEN Outcome(FALSE, EmptyDict, f.calls)
        ELSE IF w.status = "raise" THEN Outcome(TRUE, EmptyDict, calls)
        ELSE IF w.status \in {"absent", "no_splits"}
        THEN Outcome(FALSE, EmptyDict, calls)
        ELSE IF primary.tag # "dict" \/ current.tag # "dict" \/ w.raw.tag # "dict"
        THEN Outcome(TRUE, EmptyDict, calls)
        ELSE Outcome(FALSE,
                     top @@ (CASE stat_group = "hitting" -> hitting
                               [] stat_group = "pitching" -> pitching
                               [] OTHER -> EmptyDict),
                     calls)

\* get_mlb_spring_training_stats given the answers to its requests
get_mlb_spring_training_stats(responses, player_name) ==
    LET f == _find_mlb_player(responses, player_name)
        player == f.player
        calls == f.calls + 1
        primary == Get(player.d, "primaryPosition", JDict(EmptyDict))
        position == Get(primary.d, "abbreviation", Str(<<>>))
        is_pitcher == position \in {Str(<<"P">>), Str(<<"S", "P">>),
                                    Str(<<"R", "P">>), Str(<<"C", "L">>)}
        w == MlbRaw(responses[calls])
        current == Get(player.d, "currentTeam", JDict(EmptyDict))
        name == Get(player.d, "fullName", Str(player_name))
        top == [player_id |-> Get(player.d, "id", None), name |-> name,
                team |-> Get(current.d, "name", Str(<<>>)),
                position |-> position, type |-> "spring_training",
                season |-> Num(2026000)]
        zero == Str(<<".", "0", "0", "0">>)
        hitting == [games |-> Get(w.raw.d, "gamesPlayed", Num(0)),
                    avg |-> Get(w.raw.d, "avg", zero),
                    hr |-> Get(w.raw.d, "homeRuns", Num(0)),
                    rbi |-> Get(w.raw.d, "rbi", Num(0)),
                    runs |-> Get(w.raw.d, "runs", Num(0)),
                    hits |-> Get(w.raw.d, "hits", Num(0)),
                    ab |-> Get(w.raw.d, "atBats", Num(0)),
                    ops |-> Get(w.raw.d, "ops", zero)]
        pitching == [games |-> Get(w.raw.d, "gamesPlayed", Num(0)),
                     era |-> Get(w.raw.d, "era", Str(<<"0", ".", "0", "0">>)),
                     ip |-> Get(w.raw.d, "inningsPitched", Str(<<"0", ".", "0">>)),
                     so |-> Get(w.raw.d, "strikeOuts", Num(0)),
                     bb |-> Get(w.raw.d, "baseOnBalls", Num(0)),
                     whip |-> Get(w.raw.d, "whip", Str(<<"0", ".", "0", "0">>))]
    IN  IF f.raised THEN Outcome(TRUE, EmptyDict, f.calls)
        ELSE IF ~Truthy(player) \/ ~Truthy(Get(player.d, "id", None))
        THEN Outcome(FALSE, EmptyDict, f.calls)
        \* the position is read before the request is made
        ELSE IF primary.tag # "dict" THEN Outcome(TRUE, EmptyDict, f.calls)
        ELSE IF w.status = "raise" THEN Outcome(TRUE, EmptyDict, calls)
        ELSE IF w.status = "absent" THEN Outcome(FALSE, EmptyDict, calls)
        ELSE IF w.status = "no_splits"
        THEN Outcome(FALSE,
                     [name |-> name, position |-> position,
                      note |-> "No spring training stats available yet"],
                     calls)
        ELSE IF current.tag # "dict" \/ w.raw.tag # "dict"
        THEN Outcome(TRUE, EmptyDict, calls)
        ELSE Outcome(FALSE, top @@ (IF is_pitcher THEN pitching ELSE hitting), calls)

\* The calls of the normalizers: each with the three values its requests
\* get in turn from _bdl_request or _mlb_request: None, a raise, bodies of
\* the expected shape and bodies of other shapes.
NormalizerCalls ==
    LET data(items) == JDict([data |-> JList(items)])
        bdl_player ==
            JDict([id |-> Num(1000), first_name |-> Str(<<"J">>),
                   last_name |-> Str(<<"o">>), position |-> Str(<<"G">>),
                   team |-> JDict([abbreviation |-> Str(<<"L", "A", "L">>)])])
        other == JDict([id |-> Num(2000), first_name |-> None,
                        team |-> JDict([full_name |-> Str(<<"D", "E", "N">>)])])
        row == JDict([pts |-> Num(25300), reb |-> Num(7000), turnover |-> Num(3000),
                      game |-> JDict([home_team_id |-> Num(5000)]),
                      team |-> JDict([id |-> Num(5000)])])
        bdl_bodies ==
            { None, JRaised, data(<<>>), data(<<bdl_player>>),
              data(<<other, bdl_player>>),
              data(<<JDict([id |-> Num(1000), team |-> None])>>),
              data(<<row>>), data(<<None>>), JList(<<Num(1000)>>) }
        mlb_player ==
            JDict([id |-> Num(9000), fullName |-> Str(<<"O", "h">>),
                   primaryPosition |-> JDict([abbreviation |-> Str(<<"S", "P">>)]),
                   currentTeam |-> JDict([name |-> Str(<<"L", "A", "D">>)])])
        stat == JDict([gamesPlayed |-> Num(8000), avg |-> Str(<<".", "3", "8", "0">>),
                       era |-> Str(<<"2", ".", "5", "0">>)])
        stats(splits) == JDict([stats |-> JList(<<JDict([splits |-> JList(splits)])>>)])
        mlb_bodies ==
            { None, JRaised, JDict([people |-> JList(<<mlb_player>>)]),
              JDict([players |-> JList(<<JDict([fullName |-> None]), mlb_player>>)]),
              JDict([people |->
                       JList(<<JDict([id |-> Num(9000), primaryPosition |-> None])>>)]),
              stats(<<JDict([stat |-> stat])>>), stats(<<>>),
              stats(<<JDict([stat |-> None])>>), JDict([stats |-> JList(<<None>>)]) }
    IN  { [fn |-> f[1], stat_group |-> f[2], player_name |-> f[3], responses |-> r] :
            f \in { <<"get_nba_player_season_stats", "", <<"J", " ", "o">> >>,
                    <<"get_nba_player_game_log", "", <<>> >> },
            r \in [1..3 -> bdl_bodies] }
        \cup
        { [fn |-> f[1], stat_group |-> f[2], player_name |-> <<"O", "h">>,
           responses |-> r] :
            f \in { <<"get_mlb_player_stats", "hitting">>,
                    <<"get_mlb_player_stats", "pitching">>,
                    <<"get_mlb_spring_training_stats", "">> },
            r \in [1..3 -> mlb_bodies] }

InitNormalizer ==
    /\ entry = "normalizer"
    /\ pc = "call"
    /\ NoBuild /\ Loaded /\ NoMain
    /\ call \in NormalizerCalls
    /\ result = NoResult

\* one normalizer applied to the answers its requests get
ApplyNormalizer ==
    /\ Apply("normalizer")
    /\ result' =
         CASE call.fn = "get_nba_player_season_stats" ->
                get_nba_player_season_stats(call.responses, call.player_name)
           [] call.fn = "get_nba_player_game_log" ->
                get_nba_player_game_log(call.responses)
           [] call.fn = "get_mlb_player_stats" ->
                get_mlb_player_stats(call.responses, call.player_name,
                                     call.stat_group)
           [] call.fn = "get_mlb_spring_training_stats" ->
                get_mlb_spring_training_stats(call.responses, call.player_name)
    /\ pc' = IF result'.raised THEN "raised" ELSE "returned"

SpecNormalizer == InitNormalizer /\ [][ApplyNormalizer]_vars

(***************************************************************************)
(* get_nba_all_players, one page request at a time.  call holds the       *)
(* locals of the function: page, players, and answers, the values its     *)
(* requests were given so far by _bdl_request.                             *)
(***************************************************************************)
max_pages == 5

\* the limit on the page walk left out
AllPlayersNoLimit(page, players, data) ==
    LET rows == data.d.data.items
        total == Get(Get(data.d, "meta", JDict(EmptyDict)).d, "total_pages", Num(1))
        row(p) == [id |-> Get(p.d, "id", None), name |-> Str(BdlName(p)),
                   position |-> Get(p.d, "position", Str(<<>>)),
                   team |-> Get(Or(Get(p.d, "team", None), JDict(EmptyDict)).d,
                                "abbreviation", Str(<<>>))]
        step(raised, done, pg, ps) ==
            [raised |-> raised, done |-> done, page |-> pg, players |-> ps]
    IN  IF Probe(data, "data") = "raise" THEN step(TRUE, TRUE, page, players)
        ELSE IF Probe(data, "data") = "absent" THEN step(FALSE, TRUE, page, players)
        ELSE IF data.d.data.tag # "list" \/ \E i \in 1..Len(rows) : rows[i].tag # "dict"
        THEN step(TRUE, TRUE, page, players)
        ELSE IF Get(data.d, "meta", JDict(EmptyDict)).tag # "dict" \/ total.tag # "num"
        THEN step(TRUE, TRUE, page, players)
        ELSE step(FALSE, page * 1000 >= total.num,
                  IF page * 1000 >= total.num THEN page ELSE page + 1,
                  players \o [i \in 1..Len(rows) |-> row(rows[i])])

\* the dict appended for a row p of a page: [ok, player]; p and a truthy
\* p["team"] must have .get
AllPlayersRow(p) ==
    LET team == Or(Get(p.d, "team", None), JDict(EmptyDict))
    IN  IF p.tag # "dict" THEN [ok |-> FALSE, player |-> None]
        ELSE IF team.tag # "dict" THEN [ok |-> FALSE, player |-> None]
        ELSE [ok |-> TRUE,
              player |-> [id |-> Get(p.d, "id", None),
                          name |-> Str(BdlName(p)),
                          position |-> Get(p.d, "position", Str(<<>>)),
                          team |-> Get(team.d, "abbreviation", Str(<<>>))]]

\* one pass of the while loop of get_nba_all_players, entered with
\* page <= max_pages, given the value data of its request: [raised, done,
\* page, players]; done when the loop is left, by break, by the loop test
\* or by an exception
get_nba_all_players(page, players, data) ==
    LET probe == Probe(data, "data")
        e == Elems(data.d.data)
        rows == [i \in 1..Len(e.items) |-> AllPlayersRow(e.items[i])]
        meta == Get(data.d, "meta", JDict(EmptyDict))
        total == Get(meta.d, "total_pages", Num(1))
        step(raised, done, pg, ps) ==
            [raised |-> raised, done |-> done, page |-> pg, players |-> ps]
    IN  IF probe = "raise" THEN step(TRUE, TRUE, page, players)
        ELSE IF probe = "absent" THEN step(FALSE, TRUE, page, players)
        ELSE IF ~e.ok \/ \E i \in 1..Len(e.items) : ~rows[i].ok
        THEN step(TRUE, TRUE, page, players)
        \* meta.get and page >= total_pages
        ELSE IF meta.tag # "dict" \/ total.tag # "num"
        THEN step(TRUE, TRUE, page, players)
        ELSE IF page * 1000 >= total.num
        THEN step(FALSE, TRUE, page,
                  players \o [i \in 1..Len(rows) |-> rows[i].player])
        ELSE step(FALSE, page + 1 > max_pages, page + 1,
                  players \o [i \in 1..Len(rows) |-> rows[i].player])

\* What _bdl_request gives for a page: None, pages of players with and
\* without meta, an empty page, and bodies of other shapes.
PageAnswers ==
    LET player(id, pos) ==
            JDict([id |-> Num(id), first_name |-> Str(<<"J">>),
                   last_name |-> Str(<<"o">>), position |-> Str(pos),
                   team |-> JDict([abbreviation |-> Str(<<"L", "A", "L">>)])])
        bare == JDict([id |-> Num(3000), team |-> None])
        meta(n) == JDict([total_pages |-> Num(n)])
    IN  { None,
          JDict([data |-> JList(<<>>), meta |-> meta(9000)]),
          JDict([data |-> JList(<<player(1000, <<"G">>)>>), meta |-> meta(9000)]),
          JDict([data |-> JList(<<player(2000, <<"C">>), bare>>), meta |-> meta(9000)]),
          JDict([data |-> JList(<<player(2000, <<"C">>)>>), meta |-> meta(2000)]),
          JDict([data |-> JList(<<bare>>)]),
          JDict([data |-> JList(<<None>>), meta |-> meta(9000)]),
          JDict([data |-> JList(<<bare>>), meta |-> None]) }

InitPages ==
    /\ entry = "get_nba_all_players"
    /\ pc = "loop"
    /\ NoBuild /\ Loaded /\ NoMain
    /\ call = [fn |-> "get_nba_all_players", page |-> 1, players |-> <<>>,
               answers |-> <<>>]
    /\ result = NoResult

\* the next request of the walk and what the loop does with its answer
PageRequest ==
    /\ entry = "get_nba_all_players" /\ pc = "loop"
    /\ \E data \in PageAnswers :
         LET s == get_nba_all_players(call.page, call.players, data)
         IN  /\ call' = [call EXCEPT !.page = s.page, !.players = s.players,
                                     !.answers = Append(@, data)]
             /\ pc' = IF s.raised THEN "raised"
                      ELSE IF s.done THEN "returned" ELSE "loop"
             /\ result' = IF s.raised THEN [raised |-> TRUE]
                          ELSE IF s.done
                          THEN [raised |-> FALSE, value |-> s.players]
                          ELSE result
    /\ UNCHANGED <<entry, sport, scoring_format, drafted_names, roster,
                   live, hot_players, available, idx, ranked,
                   replacement_values, repl, lookups, throttle, feed, process>>

SpecPages == InitPages /\ [][PageRequest]_vars

\* the process keeps running the call it is in
SpecPagesFair == SpecPages /\ WF_vars(PageRequest)

(***************************************************************************)
(* Properties                                                              *)
(***************************************************************************)
DraftedLower == {Lower(drafted_names[i]) : i \in 1..Len(drafted_names)}
PoolNames == {PoolOf(sport)[i] : i \in 1..Len(PoolOf(sport))}
RankedNames == {ranked[k].name : k \in 1..Len(ranked)}
Returned == pc = "done"

StatsLookups ==
    {"get_nba_player_season_stats", "get_mlb_player_stats:hitting",
     "get_mlb_player_stats:pitching"}

\* a season-stats lookup for the name came back non-empty
Resolved(n) ==
    \E c \in 1..Len(lookups) :
        lookups[c].name = n /\ lookups[c].found /\ lookups[c].fn \in StatsLookups

C2_DraftedExcluded ==
    /\ \A k \in 1..Len(ranked) : Lower(ranked[k].name) \notin DraftedLower
    /\ \A c \in 1..Len(lookups) : Lower(lookups[c].name) \notin DraftedLower

\* a returned, non-empty board built while a pool name was drafted under
\* another spelling
C2_Witness ==
    /\ Returned /\ ranked # <<>> /\ lookups # <<>>
    /\ \E i \in 1..Len(drafted_names) :
          /\ drafted_names[i] \notin PoolNames
          /\ \E n \in PoolNames : Lower(n) = Lower(drafted_names[i])

\* the names the board must hold: in the pool, not drafted, stats resolved
ExpectedNames == {n \in PoolNames : Lower(n) \notin DraftedLower /\ Resolved(n)}

C4_UnsupportedSportEmpty ==
    (sport # "nba" /\ sport # "mlb")
        => /\ pc # "raised"
           /\ ranked = <<>>
           /\ lookups = <<>>

\* the build has returned for an unsupported sport key, with a drafted list
\* and a roster
C4_Witness ==
    /\ Returned /\ sport = "cricket" /\ ranked = <<>>
    /\ drafted_names # <<>> /\ roster # <<>>

SupportedFormats == {"points", "categories", "roto"}
InBuild == entry = "build_draft_board"

\* the scoring-model value of a returned record: the basketball composite,
\* the hitting model for a hitting record, the pitching model otherwise
ModelValue(stats, tie) ==
    IF sport = "nba" THEN compute_nba_points_value(stats, tie)
    ELSE IF "avg" \in DOMAIN stats THEN compute_mlb_hitting_value(stats, tie).val
    ELSE compute_mlb_pitching_value(stats, tie)

Range(f) == {f[i] : i \in DOMAIN f}

\* the k-th highest of a list of values, counted with repetitions
KthHighest(values, k) ==
    CHOOSE v \in Range(values) :
        /\ Cardinality({i \in DOMAIN values : values[i] > v}) < k
        /\ Cardinality({i \in DOMAIN values : values[i] >= v}) >= k

MinOf(values) == CHOOSE v \in Range(values) : \A w \in Range(values) : v <= w

\* repl[pos] is the baseline the rule assigns to the list of values
IsBaselineOf(b, values) ==
    LET n == Len(values)
    IN  /\ n >= 12 => 5 * b = KthHighest(values, 8) + KthHighest(values, 9)
                               + KthHighest(values, 10) + KthHighest(values, 11)
                               + KthHighest(values, 12)
        /\ (n >= 3 /\ n < 12) => b = MinOf(values)
        /\ n < 3 => b = 0

\* C6: once the baselines are computed, the baseline of every position key
\* is the mean of the 8th to 12th highest of its values when there are at
\* least 12, the minimum when there are 3 to 11, and 0 when there are fewer.
C6_Baseline ==
    pc = "vor" =>
        /\ DOMAIN repl = DOMAIN replacement_values
        /\ \A pos \in DOMAIN repl : IsBaselineOf(repl[pos], replacement_values[pos])

\* a baseline computed from 12 or more unsorted values that lies strictly
\* between the lowest and the highest of them
C6_Witness ==
    /\ pc = "vor"
    /\ \E pos \in DOMAIN repl :
          LET v == replacement_values[pos]
          IN  /\ Len(v) >= 12
              /\ v[1] < v[Len(v)]
              /\ repl[pos] > MinOf(v)
              /\ \E w \in Range(v) : repl[pos] < w

\* the adjustments of one entry: live bonus and trend kicker
Adjustments(rp) ==
    (IF Str(rp.name) \in DOMAIN hot_players THEN 3000 ELSE 0)
    + (IF rp.recent_trend > 10000 THEN rp.recent_trend \div 10 ELSE 0)

RECURSIVE PreValuesAt(_, _)
\* the pre-adjustment values of the first n entries of ranked whose position
\* key is key, in order
PreValuesAt(key, n) ==
    IF n = 0 THEN <<>>
    ELSE IF PosKey(ranked[n].position) = key
         THEN Append(PreValuesAt(key, n - 1),
                     ranked[n].fantasy_value - Adjustments(ranked[n]))
         ELSE PreValuesAt(key, n - 1)

BaselineAt(key) == IF key \in DOMAIN repl THEN repl[key] ELSE 0

\* the VOR before the positional-need bonus
VorBeforeBonus(rp) ==
    IF pc = "need" THEN rp.vor ELSE rp.vor - 2000

\* C7, the build: no baseline and no VOR exists while candidates are being
\* valued; afterwards the baseline of each key is the one of the
\* pre-adjustment values of all valued candidates at that key, and the VOR
\* of every entry, before the need bonus, is its adjusted value minus the
\* baseline of its position key, rounded to one decimal.
C7_VorInBuild ==
    /\ (InBuild /\ pc \in {"start", "loop"}) =>
          /\ DOMAIN repl = {}
          /\ \A k \in 1..Len(ranked) : ranked[k].vor = 0
    /\ (InBuild /\ pc \in {"vor", "need", "sort"}) =>
          /\ DOMAIN repl = {PosKey(ranked[k].position) : k \in 1..Len(ranked)}
          /\ \A key \in DOMAIN repl :
                /\ replacement_values[key] = PreValuesAt(key, Len(ranked))
                /\ IsBaselineOf(repl[key], PreValuesAt(key, Len(ranked)))
    /\ pc \in {"need", "sort", "top", "done"} =>
          \A k \in 1..Len(ranked) : \E tie \in TieBreaks :
              VorBeforeBonus(ranked[k])
                = Round1(ranked[k].fantasy_value
                           - BaselineAt(PosKey(ranked[k].position)), tie)

\* C7 (as stated): the build part, and compute_vor for a position without
\* baseline returns the value unchanged.
C7_UnknownPositionUnchanged ==
    /\ C7_VorInBuild
    /\ pc = "need" =>
          \A k \in 1..Len(ranked) :
              PosKey(ranked[k].position) \notin DOMAIN repl
                  => ranked[k].vor = ranked[k].fantasy_value

\* C7 (amended): the build part, and compute_vor for a position without
\* baseline returns the value rounded to one decimal.
C7_UnknownPositionRounded ==
    /\ C7_VorInBuild
    /\ pc = "need" =>
          \A k \in 1..Len(ranked) :
              PosKey(ranked[k].position) \notin DOMAIN repl
                  => \E tie \in TieBreaks :
                        ranked[k].vor = Round1(ranked[k].fantasy_value, tie)

\* a build has assigned the VOR of an adjusted candidate at a position whose
\* baseline is above 0
C7_Witness ==
    /\ InBuild /\ pc = "need" /\ Len(ranked) >= 3
    /\ \E k \in 1..Len(ranked) :
          /\ BaselineAt(PosKey(ranked[k].position)) > 0
          /\ ranked[k].vor > 0
          /\ Adjustments(ranked[k]) > 0

\* compute_vor has been applied to a value with two decimals at a position
\* that has no baseline
C7_DirectCallReached ==
    /\ entry = "compute_vor" /\ pc = "need"
    /\ PosKey(ranked[1].position) \notin DOMAIN repl
    /\ ranked[1].fantasy_value = 38250
    /\ ranked[1].vor # ranked[1].fantasy_value

\* C8: the fantasy_value of every returned candidate is its scoring-model
\* value, plus 3.0 exactly when its pool name is a key of hot_players, plus
\* trend * 0.1 exactly when trend > 10, and nothing else.
C8_AdjustedValue ==
    (InBuild /\ Returned) =>
        \A k \in 1..Len(ranked) : \E tie \in TieBreaks :
            ranked[k].fantasy_value
              = ModelValue(ranked[k].season_stats, tie)
                + (IF \E h \in DOMAIN hot_players : h = Str(ranked[k].name)
                   THEN 3000 ELSE 0)
                + (IF ranked[k].recent_trend > 10000
                   THEN (ranked[k].recent_trend * 100) \div 1000 ELSE 0)

\* a returned board with a hot candidate, a candidate who is hot only under
\* another spelling, a trend above 10 and a trend of exactly 10
C8_Witness ==
    /\ InBuild /\ Returned
    /\ \E k \in 1..Len(ranked) : Str(ranked[k].name) \in DOMAIN hot_players
    /\ \E k \in 1..Len(ranked) :
          /\ Str(ranked[k].name) \notin DOMAIN hot_players
          /\ \E h \in DOMAIN hot_players : Lower(h.str) = Lower(ranked[k].name)
    /\ \E k \in 1..Len(ranked) : ranked[k].recent_trend > 10000
    /\ \E k \in 1..Len(ranked) : ranked[k].recent_trend = 10000

\* C9: for every roster, the positional-need step adds 2.0 to the VOR of
\* every entry and tags it "fills <position key> need", and every returned
\* candidate carries that tag.
C9_NeedBonusForAll ==
    /\ [][pc = "need" =>
            /\ Len(ranked') = Len(ranked)
            /\ \A k \in 1..Len(ranked) :
                  /\ ranked'[k].vor = ranked[k].vor + 2000
                  /\ ranked'[k].recommendation
                       = [text |-> "fills _ need",
                          key |-> PosKey(ranked[k].position)]]_vars
    /\ []((InBuild /\ Returned) =>
            \A k \in 1..Len(ranked) :
                ranked[k].recommendation
                  = [text |-> "fills _ need", key |-> PosKey(ranked[k].position)])

\* a returned board of two position keys built for a non-empty roster
C9_Witness ==
    /\ InBuild /\ Returned /\ roster # <<>>
    /\ \E j, k \in 1..Len(ranked) :
          /\ PosKey(ranked[j].position) = <<"P", "G">>
          /\ PosKey(ranked[k].position) # <<"P", "G">>

\* C10: the step after the final sort gives the top entry of a non-empty
\* board the tag "BEST AVAILABLE" if it has none and leaves its tag
\* otherwise, changes nothing else, and no entry below the top ever carries
\* "BEST AVAILABLE".
C10_TopPickTag ==
    /\ [][pc = "top" =>
            /\ Len(ranked') = Len(ranked)
            /\ \A k \in 2..Len(ranked) : ranked'[k] = ranked[k]
            /\ ranked # <<>> =>
                  /\ ranked'[1].recommendation
                       = IF ranked[1].recommendation.text = ""
                         THEN [text |-> "BEST AVAILABLE", key |-> <<>>]
                         ELSE ranked[1].recommendation
                  /\ [ranked'[1] EXCEPT !.recommendation = ranked[1].recommendation]
                       = ranked[1]]_vars
    /\ [](\A k \in 2..Len(ranked) : ranked[k].recommendation.text # "BEST AVAILABLE")

\* an untagged top entry has been tagged above an untagged second entry
C10_Witness ==
    /\ Returned /\ Len(ranked) >= 2
    /\ ranked[1].recommendation.text = "BEST AVAILABLE"
    /\ ranked[2].recommendation.text = ""

\* the place of a name in the filtered pool (0 when absent)
PoolIndex(n) ==
    IF \E i \in 1..Len(available) : available[i] = n
    THEN CHOOSE i \in 1..Len(available) : available[i] = n
    ELSE 0

\* C11: two returned candidates of equal VOR stand in the order of the
\* candidate pool: the descending sort keeps insertion order on ties.
C11_StableOnTies ==
    (InBuild /\ Returned) =>
        \A i, j \in 1..Len(ranked) :
            (i < j /\ ranked[i].vor = ranked[j].vor)
                => PoolIndex(ranked[i].name) < PoolIndex(ranked[j].name)

\* a returned board whose top entry is the last of the pool, above two
\* entries of equal VOR
C11_Witness ==
    /\ InBuild /\ Returned /\ Len(ranked) = 3
    /\ ranked[1].name = available[3]
    /\ ranked[1].vor > ranked[2].vor
    /\ ranked[2].vor = ranked[3].vor

\* identify_sleeper has been applied to call
SleeperCalled == entry = "identify_sleeper" /\ pc # "call"

\* the conditions of the four rules, on the arguments of the call
TrendRule == call.trend >= 15000 /\ call.fantasy_value > 20000
BlocksRule ==
    /\ call.position \in {<<"C">>, <<"P", "F">>}
    /\ _safe_float(Get(call.stats, "blk", Num(0))) >= 2000
    /\ call.trend >= 5000
StealsRule ==
    /\ call.position \in {<<"P", "G">>, <<"S", "G">>}
    /\ _safe_float(Get(call.stats, "stl", Num(0))) >= 1800
    /\ call.trend >= 5000
SpringRule ==
    /\ "type" \in DOMAIN call.stats /\ call.stats.type = "spring_training"
    /\ Get(call.stats, "avg", Str(<<>>)).tag = "str"
    /\ ParseAvg(call.stats, <<".", "0", "0", "0">>, <<"0">>, 0).avg >= 350000
    /\ _safe_float(Get(call.stats, "games", Num(0))) >= 5000

\* the result is (True, reason of the rule citing the figure)
SleeperBy(rule, cite) ==
    /\ pc = "returned"
    /\ result.is_sleeper
    /\ result.reason = [rule |-> rule, cite |-> cite]

\* the rules are tried in order and the first that holds decides
SleeperRuleOrder ==
    /\ TrendRule => SleeperBy("trend", Num(call.trend))
    /\ (~TrendRule /\ BlocksRule)
          => SleeperBy("blocks", Num(_safe_float(Get(call.stats, "blk", Num(0)))))
    /\ (~TrendRule /\ ~BlocksRule /\ StealsRule)
          => SleeperBy("steals", Num(_safe_float(Get(call.stats, "stl", Num(0)))))
    /\ (~TrendRule /\ ~BlocksRule /\ ~StealsRule /\ SpringRule)
          => SleeperBy("spring", call.stats.avg)

\* C12 (as stated): identify_sleeper tries its rules in order and the first
\* match wins, the trend rule before the position rules and the spring
\* rule; when no rule holds the result is (False, "").
C12_FirstMatchWins ==
    SleeperCalled =>
        /\ SleeperRuleOrder
        /\ (~TrendRule /\ ~BlocksRule /\ ~StealsRule /\ ~SpringRule)
              => /\ pc = "returned"
                 /\ ~result.is_sleeper
                 /\ result.reason = NoReason

\* the part of C12 that holds: the order of the rules, and (False, "") when
\* no rule holds and identify_sleeper returns
C12_FirstMatchWinsWhenReturned ==
    SleeperCalled =>
        /\ SleeperRuleOrder
        /\ (pc = "returned"
             /\ ~TrendRule /\ ~BlocksRule /\ ~StealsRule /\ ~SpringRule)
              => (~result.is_sleeper /\ result.reason = NoReason)

\* the trend rule has decided a call for which the blocks rule and the
\* spring rule hold too
C12_Witness ==
    /\ SleeperCalled /\ TrendRule /\ BlocksRule /\ SpringRule
    /\ result.reason.rule = "trend"

\* identify_sleeper has raised on a spring-training record whose avg is null
C12_RaisedOnNullAvg ==
    /\ SleeperCalled /\ pc = "raised"
    /\ call.stats.avg = None

\* the minimum interval of a provider
DelayOf(provider) ==
    IF provider = "bdl" THEN BDL_RATE_LIMIT_DELAY ELSE MLB_RATE_DELAY

\* requests i < j are consecutive requests to one provider
ConsecutiveTo(i, j) ==
    /\ i < j /\ requests[i].provider = requests[j].provider
    /\ \A k \in (i + 1)..(j - 1) : requests[k].provider # requests[i].provider

\* C13 (as stated): two consecutive requests to the same provider are issued
\* at least the provider's minimum interval apart (2.1 s, 0.5 s), whatever
\* the outcome of the earlier one.
C13_MinInterval ==
    \A i, j \in 1..Len(requests) :
        ConsecutiveTo(i, j)
            => requests[j].issued - requests[i].issued
                 >= DelayOf(requests[i].provider)

\* the part of C13 that holds: the interval is kept after every request
\* that was answered, and the sleep before a request is the rest of the
\* interval since the last answer
C13_MinIntervalAfterResponse ==
    \A i, j \in 1..Len(requests) :
        (ConsecutiveTo(i, j) /\ requests[i].status # "exception")
            => /\ requests[j].issued - requests[i].answered
                    >= DelayOf(requests[i].provider)
               /\ requests[j].slept > 0
                    => requests[j].issued - requests[i].answered
                         = DelayOf(requests[i].provider)

\* a request follows at once a request to the same provider that raised
C13_NoIntervalAfterException ==
    \E i, j \in 1..Len(requests) :
        /\ ConsecutiveTo(i, j) /\ requests[i].status = "exception"
        /\ requests[j].issued = requests[i].issued

\* C14: a 429 from the basketball provider makes _bdl_request sleep 60 s
\* before it returns None, and the request is not sent again; any other
\* non-success status returns None without that sleep.
C14_BackoffOn429 ==
    [][requests' # requests =>
          /\ Len(requests') = Len(requests) + 1
          /\ LET r == requests'[Len(requests')]
             IN  r.provider = "bdl" =>
                   /\ r.status = "429" =>
                         (r.returned = "none" /\ clock' = r.answered + 600)
                   /\ r.status \in {"404", "500"} =>
                         (r.returned = "none" /\ clock' = r.answered)]_vars

\* a rejected request to the basketball provider, a request refused with
\* another status, and a request issued after the back-off
C14_Witness ==
    \E i, j, k \in 1..Len(requests) :
        /\ requests[i].provider = "bdl" /\ requests[i].status = "429"
        /\ requests[j].provider = "bdl" /\ requests[j].status = "500"
        /\ i < k /\ requests[k].provider = "bdl"
        /\ requests[k].issued >= requests[i].answered + 600

\* a normalizer has been applied
Normalized == entry = "normalizer" /\ pc # "call"

\* the responses the call consumed
Consumed == {call.responses[i] : i \in 1..result.calls}

\* a result that stands for failure: {} or []
EmptyValue == result.value = EmptyDict \/ result.value = <<>>

\* C15 (as stated): the provider layer never raises: the request functions
\* return None on every failure, and a normalizer returns, with {} or []
\* when a request failed or a payload is malformed.
C15_NeverRaises ==
    /\ \A i \in 1..Len(requests) : requests[i].returned # "raised"
    /\ Normalized => pc = "returned"

\* the part of C15 that holds for the normalizers: a call whose requests
\* all fail (the request function returns None) returns {} or []
C15_EmptyOnFailedRequests ==
    (Normalized /\ \A r \in Consumed : r = None)
        => (pc = "returned" /\ EmptyValue)

\* the part of C15 that holds for the request functions: None on a network
\* failure, a timeout and every status but 200
C15_NoneOnFailure ==
    \A i \in 1..Len(requests) :
        requests[i].status \in {"exception", "429", "404", "500"}
            => requests[i].returned = "none"

\* a normalizer has raised on a body that decoded to a dict
C15_RaisedOnShape ==
    /\ Normalized /\ pc = "raised"
    /\ \A r \in Consumed : r.tag = "dict"

(***************************************************************************)
(* The live polling cursor                                                 *)
(***************************************************************************)
\* the cursor after the k-th poll and before it
CursorAfter(k) == polls[k].ctx.last_event_id
CursorBefore(k) == polls[k].before.last_event_id

\* the k-th poll returned a non-empty list of events
ReturnedEvents(k) == polls[k].events.tag = "list" /\ polls[k].events.items # <<>>

\* the identifier of the last event the k-th poll returned (id, else event_id)
LastEventId(k) ==
    LET items == polls[k].events.items
        last == items[Len(items)]
    IN  Or(Get(last, "id", None), Get(last, "event_id", None))

\* a set cursor never becomes unset
CursorStaysSet ==
    \A k \in 1..Len(polls) : Truthy(CursorBefore(k)) => Truthy(CursorAfter(k))

\* every request made while a cursor is set carries it as since_event_id
CursorSent ==
    \A k \in 1..Len(polls) :
        /\ polls[k].sent /\ Truthy(CursorBefore(k)) => polls[k].since = CursorBefore(k)
        /\ polls[k].sent /\ ~Truthy(CursorBefore(k)) => polls[k].since = None

\* C16 as stated: over any sequence of polls the cursor never becomes unset
\* and never returns to an identifier it held before, after a poll that
\* returned events it is the identifier of the last event of that poll, and
\* each poll made while it is set sends it as since_event_id.
C16_CursorMonotonic ==
    /\ CursorStaysSet
    /\ CursorSent
    /\ \A i, j \in 1..Len(polls) :
            i < j /\ CursorAfter(i) # CursorBefore(i) /\ Truthy(CursorBefore(i))
                => CursorAfter(j) # CursorBefore(i)
    /\ \A k \in 1..Len(polls) :
            ReturnedEvents(k) => CursorAfter(k) = StrOf(LastEventId(k))

\* C16 amended: the cursor never becomes unset; a poll changes it only to
\* the string form of the identifier of the last event it returned, which it
\* does whenever that event carries one, and leaves it as it was otherwise;
\* each poll made while it is set sends it as since_event_id.
C16_CursorFollowsLastEvent ==
    /\ entry = "get_live_games" => live_context.last_event_id =
            (IF polls = <<>> THEN None ELSE CursorAfter(Len(polls)))
    /\ CursorStaysSet
    /\ CursorSent
    /\ \A k \in 1..Len(polls) :
            /\ k > 1 => CursorBefore(k) = CursorAfter(k - 1)
            /\ CursorAfter(k) =
                 (IF ReturnedEvents(k) /\ Truthy(LastEventId(k))
                  THEN StrOf(LastEventId(k))
                  ELSE CursorBefore(k))

\* two polls with events have run, the second sent the cursor of the first
\* and moved it to the identifier of its own last event
C16_Witness ==
    /\ entry = "get_live_games"
    /\ \E k \in 2..Len(polls) :
          /\ ReturnedEvents(k - 1) /\ ReturnedEvents(k)
          /\ polls[k].since = CursorAfter(k - 1)
          /\ Truthy(polls[k].since)
          /\ CursorAfter(k) # CursorBefore(k)
          /\ CursorAfter(k) = StrOf(LastEventId(k))

\* a poll returned events whose last one has no identifier: the cursor stays
C16_NoIdentifier ==
    \E k \in 1..Len(polls) :
        ReturnedEvents(k) /\ ~Truthy(LastEventId(k)) /\ Truthy(CursorBefore(k))

(***************************************************************************)
(* Live failures and the board build                                       *)
(***************************************************************************)
InMain == entry = "main"

\* the answer to a poll carries no usable event list
Unusable(resp) ==
    LET events == Get(resp.body, "data", Get(resp.body, "events", JList(<<>>)))
    IN  \/ resp.kind = "fail"
        \/ events.tag # "list"
        \/ \E i \in 1..Len(events.items) : ~IsDict(events.items[i])

\* build_draft_board raised before it looked at any candidate
AbortedByLive == pc = "raised" /\ lookups = <<>> /\ idx = 0

\* connect failed: main goes on with live_ctx = None
ConnectFailureDegrades ==
    InMain /\ call # NoCall /\ ~result.ok => live_context = NoContext /\ polls = <<>>

\* C17 as stated: when connect fails main proceeds with no live context,
\* and when the poll fails or its body has no usable event list
\* get_live_games yields a list and the build goes on with no hot players.
C17_LiveFailureNeverAborts ==
    /\ ConnectFailureDegrades
    /\ \A k \in 1..Len(polls) :
          InMain /\ Unusable(polls[k].resp)
              => /\ polls[k].events.tag = "list"
                 /\ hot_players = EmptyDict
                 /\ ~AbortedByLive

\* the parts of C17 that hold: a failed connect, and a poll that raised or
\* had no connection handle, leave the build without hot players
C17_FailedRequestDegrades ==
    /\ ConnectFailureDegrades
    /\ \A k \in 1..Len(polls) :
          InMain /\ (polls[k].resp.kind = "fail" \/ ~polls[k].sent)
              => /\ polls[k].events = JList(<<>>)
                 /\ hot_players = EmptyDict
                 /\ ~AbortedByLive

\* main ended on an exception of the build after a poll answered "data": null
C17_AbortedOnNullList ==
    /\ InMain /\ pc = "exited" /\ exit_status = "exception"
    /\ lookups = <<>>
    /\ \E k \in 1..Len(polls) : polls[k].events = None

(***************************************************************************)
(* Exit status of main                                                     *)
(***************************************************************************)
\* C20: when build_draft_board returned an empty list main ends with a
\* non-zero status and has printed no board; it prints the board and ends
\* with status 0 only for a non-empty list.
C20_EmptyBoardExit ==
    InMain /\ pc = "exited" /\ exit_status # "exception"
        => /\ ranked = <<>> => exit_status = "1" /\ printed = <<NO_DATA>>
           /\ ranked # <<>> => exit_status = "0" /\ printed = <<"board">>

\* main ended after a build that visited candidates and returned no entry
C20_Witness ==
    /\ InMain /\ pc = "exited"
    /\ ranked = <<>> /\ lookups # <<>>
    /\ exit_status = "1"

(***************************************************************************)
(* Hot players                                                             *)
(***************************************************************************)
HotCalled == entry = "extract_hot_players" /\ pc = "returned"

\* the player dicts listed under the team keys of an event, whether they
\* come as an array or as the values of a keyed mapping
Listed(game) ==
    UNION { {game[TEAM_KEYS[k]].items[i] : i \in 1..Len(game[TEAM_KEYS[k]].items)} :
            k \in {j \in 1..Len(TEAM_KEYS) : TEAM_KEYS[j] \in DOMAIN game} }

\* the name a player dict goes by
NameOfPlayer(player) ==
    Or(Get(player, "name", None),
       Or(Get(player, "player_name", None), Get(player, "fullName", None)))

\* points >= 20 or rebounds >= 10 or assists >= 8
OverThreshold(player) ==
    LET stat(long, short) == _safe_float(Or(Get(player, long, None),
                                            Get(player, short, None)))
    IN  \/ stat("points", "pts") >= 20000
        \/ stat("rebounds", "reb") >= 10000
        \/ stat("assists", "ast") >= 8000

\* the same events with every keyed mapping of players turned into an array
AsArrays(games) ==
    [n \in 1..Len(games) |->
        [k \in DOMAIN games[n] |->
            IF k = "status" THEN games[n][k]
            ELSE [kind |-> "list", items |-> games[n][k].items]]]

\* the hot entries owed to the events in progress of a list of events
HotIn(games) ==
    {p \in UNION {Listed(games[n]) : n \in {m \in 1..Len(games) : GameIsLive(games[m])}} :
        Truthy(NameOfPlayer(p)) /\ OverThreshold(p)}

\* C18: extract_hot_players returns a name if and only if a player of that
\* name is listed, in an event whose status is one of the in-progress
\* statuses, with points >= 20 or rebounds >= 10 or assists >= 8; events of
\* any other status contribute nothing, and the result is the one obtained
\* when every keyed mapping of players is given as an array.
C18_HotIffLiveThreshold ==
    HotCalled =>
        /\ DOMAIN result.value = {NameOfPlayer(p) : p \in HotIn(call.games)}
        /\ result.value = extract_hot_players(AsArrays(call.games))

\* a call returned a player listed in a keyed mapping of an event in
\* progress and left out one over the thresholds in an event that is over
C18_Witness ==
    /\ HotCalled
    /\ Len(call.games) = 2
    /\ GameIsLive(call.games[1]) /\ ~GameIsLive(call.games[2])
    /\ "home_players" \in DOMAIN call.games[1]
    /\ call.games[1].home_players.kind = "dict"
    /\ \E p \in Listed(call.games[1]) : NameOfPlayer(p) \in DOMAIN result.value
    /\ \E p \in Listed(call.games[2]) :
          /\ Truthy(NameOfPlayer(p)) /\ OverThreshold(p)
          /\ NameOfPlayer(p) \notin DOMAIN result.value

(***************************************************************************)
(* Ill-formed stat fields                                                  *)
(***************************************************************************)
ValueApplied == entry = "valuation" /\ pc # "call"

\* the record carries a batting average that is not a string
AvgNotText(stats) == "avg" \in DOMAIN stats /\ stats.avg.tag # "str"

\* C19 as stated: whatever a stat field holds (a number, a numeric string,
\* a string that is no number, None, or nothing), the scoring models return
\* a value and do not raise.
C19_NeverFails == ValueApplied => pc = "returned" /\ ~result.raised

\* the part of C19 that holds: the basketball and pitching models never
\* raise, and the hitting model raises exactly when the record carries a
\* batting average that is not a string
C19_FailsOnlyOnAvg ==
    ValueApplied => (result.raised <=>
                  call.fn = "compute_mlb_hitting_value" /\ AvgNotText(call.stats))

\* the hitting model was applied to a record with "avg": None and raised
C19_RaisedOnNullAvg ==
    /\ ValueApplied /\ pc = "raised"
    /\ call.fn = "compute_mlb_hitting_value"
    /\ call.stats.avg = None

(***************************************************************************)
(* Recent trend                                                            *)
(***************************************************************************)
TrendCalled == entry = "compute_recent_trend" /\ pc = "returned"

\* the points a record counts for: its "pts" as a number, 0.0 otherwise
PtsOf(rec) == _safe_float(Get(rec, "pts", Num(0)))

RECURSIVE PtsTotal(_)
\* the points of all entries of a game log, added up
PtsTotal(log) == IF log = <<>> THEN 0 ELSE PtsOf(Head(log)) + PtsTotal(Tail(log))

\* v (in thousandths) is x / d rounded to one decimal: v is a whole number
\* of tenths no further than half a tenth from x / d
NearestTenth(v, x, d) ==
    LET dist == (v \div 100) * d - x * 10
        abs(k) == IF k < 0 THEN -k ELSE k
    IN  v % 100 = 0 /\ 2 * abs(dist) <= abs(d)

\* C21: compute_recent_trend returns 0.0 when the season record is empty,
\* the game log is empty or the season points average is zero; otherwise it
\* returns (recent_avg - season_avg) / season_avg * 100 to one decimal,
\* recent_avg being the mean of the points of all entries of the log.
C21_TrendOfMean ==
    TrendCalled =>
        LET season == PtsOf(call.season_stats)
            n == Len(call.game_log)
        IN  IF IsEmpty(call.season_stats) \/ n = 0 \/ season = 0
            THEN result.val = 0
            \* (total / n - season) / season * 100
            ELSE NearestTenth(result.val,
                              (PtsTotal(call.game_log) - n * season) * 100,
                              n * season)

\* a trend other than zero was returned for a log of three games that do
\* not all have the points of the first
C21_Witness ==
    /\ TrendCalled
    /\ Len(call.game_log) = 3
    /\ PtsOf(call.game_log[1]) # PtsOf(call.game_log[3])
    /\ result.val # 0
    /\ result.val # TrendOfFirstGame(call.season_stats, call.game_log, call.tie)

(***************************************************************************)
(* The scoring models on valid records                                     *)
(***************************************************************************)
\* model fn was applied and returned
ValueReturned(fn) == entry = "valuation" /\ pc = "returned" /\ call.fn = fn

\* the record handed over is empty or None
NoRecord == call.stats = None \/ IsEmpty(call.stats)

\* the field of the record under key as a number (thousandths), 0 when the
\* key is missing
Field(key) == IF key \in DOMAIN call.stats THEN call.stats[key].num ELSE 0

\* every field of the record under one of the keys is a number
Numeric(keys) == \A k \in keys \cap DOMAIN call.stats : call.stats[k].tag = "num"

\* C22: for a record whose fields are numbers compute_nba_points_value is
\* pts * 1.0 + reb * 1.2 + ast * 1.5 + stl * 3.0 + blk * 3.0 + fg3m * 0.5
\* - tov * 1.0 to one decimal, a missing field counting as 0; it is 0.0
\* for an empty or None record.
C22_NbaWeightedSum ==
    ValueReturned("compute_nba_points_value") =>
        IF NoRecord THEN result.val = 0
        ELSE Numeric({"pts", "reb", "ast", "stl", "blk", "fg3m", "tov"}) =>
               NearestTenth(result.val,
                            10 * Field("pts") + 12 * Field("reb") + 15 * Field("ast")
                            + 30 * Field("stl") + 30 * Field("blk")
                            + 5 * Field("fg3m") - 10 * Field("tov"),
                            10000)

\* the composite of a record with all seven fields, turnovers among them,
\* was returned and is not the plain sum of the fields
C22_Witness ==
    /\ ValueReturned("compute_nba_points_value")
    /\ {"pts", "reb", "ast", "stl", "blk", "fg3m", "tov"} \subseteq DOMAIN call.stats
    /\ Field("tov") > 0
    /\ result.val = 47100

\* the batting average the record's string denotes, in thousandths; .250,
\* which earns nothing, when the key is missing or the string is no number
DenotedAvg ==
    IF "avg" \in DOMAIN call.stats /\ ParseFloat(call.stats.avg.str).ok
    THEN ParseFloat(call.stats.avg.str).val
    ELSE 250

\* runs * 1.0 + hr * 4.0 + rbi * 1.0 + sb * 2.0, plus (avg - .270) * 1000
\* * 5.0 for an average avg above .270, to one decimal
HittingValueIs(avg) ==
    NearestTenth(result.val,
                 10 * Field("runs") + 40 * Field("hr") + 10 * Field("rbi")
                 + 20 * Field("sb")
                 + (IF avg > 270 THEN (avg - 270) * 50000 ELSE 0),
                 10000)

\* C23 as stated: compute_mlb_hitting_value is the weighted sum of runs,
\* hr, rbi and sb plus (avg - .270) * 1000 * 5.0 exactly when the average
\* denoted by the record's batting-average string is above .270; it is 0.0
\* for an empty or None record.
C23_BonusAboveThreshold ==
    ValueReturned("compute_mlb_hitting_value") =>
        IF NoRecord THEN result.val = 0
        ELSE Numeric({"runs", "hr", "rbi", "sb"}) => HittingValueIs(DenotedAvg)

\* the part of C23 that holds: the same for every record whose average is
\* written without an integer part (".300"), is missing or is no number
C23_BonusOnLeadingDot ==
    ValueReturned("compute_mlb_hitting_value") =>
        IF NoRecord THEN result.val = 0
        ELSE Numeric({"runs", "hr", "rbi", "sb"}) /\ DenotedAvg < 1000
                /\ ("avg" \in DOMAIN call.stats /\ call.stats.avg.str # <<>>
                        => call.stats.avg.str[1] = ".")
                => HittingValueIs(DenotedAvg)

\* a record with average "1.000" was valued and earned no bonus
C23_NoBonusOnWholeForm ==
    /\ ValueReturned("compute_mlb_hitting_value")
    /\ "avg" \in DOMAIN call.stats
    /\ call.stats.avg = Str(<<"1", ".", "0", "0", "0">>)
    /\ Numeric({"runs", "hr"})
    /\ result.val = Field("runs") + 4 * Field("hr")

\* the ERA or WHIP of the record in thousandths: the number its field
\* holds or denotes, the neutral value when the field is missing, None or a
\* string that is no number
Ratio(key, neutral) ==
    IF key \notin DOMAIN call.stats THEN neutral
    ELSE LET v == call.stats[key]
         IN  CASE v.tag = "num" -> v.num
               [] v.tag = "str" /\ ParseFloat(v.str).ok -> ParseFloat(v.str).val
               [] OTHER -> neutral

\* C24: compute_mlb_pitching_value is wins * 5.0 + so * 1.0 + saves * 5.0,
\* less (era - 3.50) / 0.50 * 2.0 only for an ERA above 3.50 and less
\* (whip - 1.20) / 0.10 * 3.0 only for a WHIP above 1.20, to one decimal; a
\* malformed ERA or WHIP counts as 3.50 or 1.20 and costs nothing; the
\* value is 0.0 for an empty or None record.
C24_PitchingPenalties ==
    ValueReturned("compute_mlb_pitching_value") =>
        IF NoRecord THEN result.val = 0
        ELSE Numeric({"wins", "so", "saves"}) =>
               LET era == Ratio("era", 3500)
                   whip == Ratio("whip", 1200)
               IN  NearestTenth(result.val,
                                50 * Field("wins") + 10 * Field("so")
                                + 50 * Field("saves")
                                - (IF era > 3500 THEN (era - 3500) * 40 ELSE 0)
                                - (IF whip > 1200 THEN (whip - 1200) * 300 ELSE 0),
                                10000)

\* a record with an ERA under 3.50 and a WHIP over 1.20 was valued: the
\* WHIP cost it 99 and the ERA earned it nothing
C24_Witness ==
    /\ ValueReturned("compute_mlb_pitching_value")
    /\ {"wins", "era", "whip"} \subseteq DOMAIN call.stats
    /\ call.stats.wins = Num(2000)
    /\ Ratio("era", 3500) = 1200 /\ Ratio("whip", 1200) = 4500
    /\ result.val = 10000 - 99000

(***************************************************************************)
(* Sleepers in a baseball build                                            *)
(***************************************************************************)
\* C25: in a build for mlb no candidate on the board is a sleeper: its trend
\* is 0.0, and the spring-training sample sits under "spring_training" of
\* the season record, which itself never carries the key "type" that the
\* spring-training rule reads.
C25_NoMlbSleeper ==
    InBuild /\ sport = "mlb" =>
        \A k \in 1..Len(ranked) :
            /\ ~ranked[k].is_sleeper
            /\ ranked[k].sleeper_reason = NoReason
            /\ ranked[k].recent_trend = 0
            /\ "type" \notin DOMAIN ranked[k].season_stats
            /\ "spring_training" \in DOMAIN ranked[k].season_stats
                  => ranked[k].season_stats.spring_training.type = "spring_training"

\* a returned mlb board holds a hitter whose nested spring-training sample
\* meets the thresholds of the rule (average .380 over 8 games)
C25_Witness ==
    /\ InBuild /\ sport = "mlb" /\ Returned
    /\ \E k \in 1..Len(ranked) :
          /\ "spring_training" \in DOMAIN ranked[k].season_stats
          /\ ranked[k].season_stats.spring_training.avg = Str(<<".", "3", "8", "0">>)
          /\ ranked[k].season_stats.spring_training.games = Num(8000)
          /\ ~ranked[k].is_sleeper

(***************************************************************************)
(* Release of the live subscription                                        *)
(***************************************************************************)
\* connect returned True
Subscribed == call # NoCall /\ result.ok

C26_ClosedOnEmptyBoard ==
    /\ InMain /\ pc = "exited" /\ Subscribed
    /\ exit_status = "1"
    /\ closes = <<[sent |-> TRUE]>>

(***************************************************************************)
(* The BEST AVAILABLE tag in a build                                       *)
(***************************************************************************)
\* C27: no build returns a candidate tagged "BEST AVAILABLE": the
\* positional-need step has tagged every candidate "fills <position> need",
\* so the step after the sort finds the top candidate tagged and changes
\* nothing.
C27_NeverBestAvailable ==
    /\ [][InBuild /\ pc = "top" => ranked' = ranked]_vars
    /\ [](InBuild /\ pc \in {"top", "done"} =>
            \A k \in 1..Len(ranked) :
                /\ ranked[k].recommendation # BestAvailable
                /\ ranked[k].recommendation.text = "fills _ need")

\* a board of several candidates was returned for a roster that already
\* holds players, its top candidate tagged with the need of its position
C27_Witness ==
    /\ InBuild /\ Returned
    /\ roster # <<>> /\ Len(ranked) >= 2
    /\ ranked[1].vor > ranked[2].vor
    /\ ranked[1].recommendation = FillsNeed(PosKey(ranked[1].position))

(***************************************************************************)
(* Polls that do not advance the cursor                                    *)
(***************************************************************************)
\* the k-th poll was made with a connection handle
HadConnection(k) == Truthy(polls[k].before.connection_id)

\* the k-th poll left the cursor and the connection handle as they were
Unmoved(k) == polls[k].ctx = polls[k].before

\* the k-th poll failed: the request raised, was answered with a
\* non-success status or a body that is no JSON, or reading the last event
\* of the answer raised; all end in the except clause
FailedPoll(k) ==
    LET resp == polls[k].resp
        events == Get(resp.body, "data", Get(resp.body, "events", JList(<<>>)))
    IN  \/ resp.kind = "fail"
        \/ Truthy(events) /\ events.tag # "list"
        \/ Truthy(events) /\ ~IsDict(events.items[Len(events.items)])

\* C28: a poll that fails, is made without a connection, returns no events
\* or ends in an event without identifier leaves the cursor and the
\* connection handle unchanged; a failed poll and a poll without connection
\* return an empty list; a poll without connection sends no request.
C28_NoAdvanceFrame ==
    \A k \in 1..Len(polls) :
        /\ (\/ FailedPoll(k)
            \/ ~HadConnection(k)
            \/ ~ReturnedEvents(k)
            \/ ~Truthy(LastEventId(k))) => Unmoved(k)
        /\ FailedPoll(k) \/ ~HadConnection(k) => polls[k].events = JList(<<>>)
        /\ ~HadConnection(k) => ~polls[k].sent /\ polls[k].since = None
        /\ HadConnection(k) => polls[k].sent

\* a poll set the cursor; the failed poll and the poll ending in an event
\* without identifier that followed both sent it and left it in place
C28_Witness ==
    /\ entry = "get_live_games" /\ Len(polls) = 3
    /\ Truthy(CursorAfter(1))
    /\ polls[2].resp.kind = "fail" /\ polls[2].since = CursorAfter(1)
    /\ ReturnedEvents(3) /\ ~Truthy(LastEventId(3))
    /\ polls[3].since = CursorAfter(1)
    /\ live_context.last_event_id = CursorAfter(1)

\* a context without connection handle was polled
C28_NoConnectionPolled ==
    /\ entry = "get_live_games" /\ polls # <<>>
    /\ ~HadConnection(1) /\ polls[1].resp.kind = "ok"

(***************************************************************************)
(* Multi-position candidates                                               *)
(***************************************************************************)
\* the position string names several positions
MultiPosition(position) == \E i \in 1..Len(position) : position[i] = "/"

\* C29: in a build the blocks rule and the steals rule read the whole
\* position string while the values for the replacement baseline are kept
\* under its first segment: a candidate with a multi-position string is
\* never a sleeper by blocks or by steals, whatever its blocks, steals and
\* trend.
C29_MultiPositionNoCategoryRule ==
    InBuild =>
        \A k \in 1..Len(ranked) :
            MultiPosition(ranked[k].position) =>
                /\ ranked[k].sleeper_reason.rule \notin {"blocks", "steals"}
                /\ ranked[k].is_sleeper => ranked[k].sleeper_reason.rule = "trend"
                /\ FirstSegment(ranked[k].position) \in DOMAIN replacement_values
                /\ ranked[k].position \notin DOMAIN replacement_values

\* a board was returned with a "C/PF" candidate of 2.5 blocks on a trend
\* between 5 and 15 that is no sleeper, its value counted under "C"
C29_Witness ==
    /\ InBuild /\ Returned
    /\ \E k \in 1..Len(ranked) :
          /\ ranked[k].position = <<"C", "/", "P", "F">>
          /\ ranked[k].season_stats.blk = Num(2500)
          /\ ranked[k].recent_trend >= 5000 /\ ranked[k].recent_trend < 15000
          /\ ~ranked[k].is_sleeper
          /\ <<"C">> \in DOMAIN repl

(***************************************************************************)
(* The page walk of get_nba_all_players                                    *)
(***************************************************************************)
InPages == entry = "get_nba_all_players"
PagesEnded == InPages /\ pc # "loop"

\* the players a fetched page holds; none for an absent or empty page
PagePlayers(data) ==
    IF Probe(data, "data") # "ok" THEN <<>>
    ELSE LET e == Elems(data.d.data)
         IN  [i \in 1..Len(e.items) |-> AllPlayersRow(e.items[i]).player]

\* the players of the first n answers, in page order
FetchedPlayers(n) ==
    LET RECURSIVE upto(_)
        upto(k) == IF k = 0 THEN <<>>
                   ELSE upto(k - 1) \o PagePlayers(call.answers[k])
    IN  upto(n)

\* the provider's total_pages for page k (1 when it reports none)
TotalPages(k) ==
    Get(Get(call.answers[k].d, "meta", JDict(EmptyDict)).d, "total_pages", Num(1))

\* page k is absent or empty
NoPage(k) == Probe(call.answers[k], "data") = "absent"

\* page k is an object with a list of player objects and a meta object
\* whose total_pages, when given, is a number
UsablePage(k) ==
    LET data == call.answers[k]
    IN  /\ Probe(data, "data") = "ok"
        /\ data.d.data.tag = "list"
        /\ \A i \in 1..Len(data.d.data.items) : AllPlayersRow(data.d.data.items[i]).ok
        /\ Get(data.d, "meta", JDict(EmptyDict)).tag = "dict"
        /\ TotalPages(k).tag = "num"

\* the walk stopped where it should: no request after an absent or empty
\* page, after a page whose number reached total_pages, or after page 5
StoppedInTime ==
    LET n == Len(call.answers)
    IN  /\ n >= 1 /\ n <= max_pages
        /\ \A k \in 1..(n - 1) : ~NoPage(k) /\ k * 1000 < TotalPages(k).num
        /\ \/ NoPage(n)
           \/ n * 1000 >= TotalPages(n).num
           \/ n = max_pages

\* C30: get_nba_all_players ends, for every provider behaviour, after at
\* most 5 page requests: it stops at the first absent or empty page, or as
\* soon as the page number reaches the provider's total_pages, and returns
\* the players of all pages fetched so far in page order (an empty list
\* when the first page is absent).
C30_ReturnsFetchedPages ==
    /\ InPages => Len(call.answers) <= max_pages
    /\ PagesEnded =>
         /\ pc = "returned" /\ ~result.raised
         /\ StoppedInTime
         /\ result.value = FetchedPlayers(Len(call.answers))

\* the same for walks whose pages are all absent, empty or usable
C30_ReturnsFetchedUsablePages ==
    /\ InPages => Len(call.answers) <= max_pages
    /\ (PagesEnded /\ \A k \in 1..Len(call.answers) : NoPage(k) \/ UsablePage(k)) =>
         /\ pc = "returned" /\ ~result.raised
         /\ StoppedInTime
         /\ result.value = FetchedPlayers(Len(call.answers))

\* every call ends, by returning or by raising
C30_Ends == InPages ~> PagesEnded

\* every call that ends by raising was answered a page that is neither
\* absent, empty nor usable
C30_RaisesOnlyOnUnusablePage ==
    (InPages /\ pc = "raised") =>
        LET n == Len(call.answers) IN ~NoPage(n) /\ ~UsablePage(n)

\* a walk of five usable pages returned all their players
C30_FivePagesReturned ==
    /\ InPages /\ pc = "returned"
    /\ Len(call.answers) = max_pages /\ ~NoPage(max_pages)
    /\ Len(result.value) >= max_pages

\* the second page held a null player: the call raised and the players of
\* the first page went with it
C30_RaisedAfterFetchedPage ==
    /\ InPages /\ pc = "raised"
    /\ Len(call.answers) = 2
    /\ UsablePage(1) /\ call.players # <<>>
    /\ call.answers[2].d.data = JList(<<None>>)
====
